---- MODULE Spec2Model ----
(***************************************************************************)
(* Alert-to-order execution pipeline of the trading server:                *)
(*   - OrderExecutionService (processAlert, processAlertForStrategy,       *)
(*     executeOrder, monitorOrderStatus, createTradeRecord),               *)
(*   - the reconciliation cron job (CronJobs.monitorOrderStatus),          *)
(*   - the manual order and cancel-order routes,                           *)
(*   - the broker client (FyersAPI.placeOrder / getOrderBook / cancelOrder)*)
(* One user; every await of the code is one step of the model.             *)
(***************************************************************************)
EXTENDS Integers, Sequences, FiniteSets, TLC

\* ------------------------------------------------------------------ bounds
MaxAlerts == 1
MaxOrders == 2
MaxBrokerOrders == 1
MaxTime == 1
NumTicks == 2
NumReconOrders == 2
RaceAlerts == 2
NumUsers == 3
NumCloseRequests == 2
MaxCloseTrades == 2

\* ------------------------------------------------------- program constants
DefaultMaxPositions == 10
DefaultDailyLossLimit == 10000
DefaultMaxPositionSize == 100000

\* ------------------------------------------------------------ value domains
\* An optional value (undefined / NULL in the code) is <<>>, a present one <<v>>.
None == <<>>
Some(v) == <<v>>

\* JavaScript truthiness of an optional number: undefined, NaN and 0 are falsy.
Truthy(o) == o # None /\ o[1] # 0

\* a || b || c on optional numbers with a constant last operand.
OrElse(o, d) == IF Truthy(o) THEN o[1] ELSE d

\* a * b on optional numbers: undefined operands give NaN, modelled as None.
Mul(a, b) == IF a = None \/ b = None THEN None ELSE Some(a[1] * b[1])

\* Variant: the comparison is >=.
Gt_OrEqual(a, n) == a # None /\ a[1] >= n

\* a > n where a may be NaN: every comparison with NaN is false.
Gt(a, n) == a # None /\ a[1] > n

\* The alert payloads the webhook accepts (Joi: action BUY/SELL/HOLD, price and
\* quantity optional and positive): [symbol, action, price, quantity].
AlertPayloads ==
  { << "RELIANCE", "BUY", Some(100), Some(2) >>,
    << "RELIANCE", "SELL", None, None >>,
    << "TCS", "BUY", None, Some(2) >>,
    << "TCS", "SELL", Some(100), Some(2) >>,
    << "TCS", "HOLD", Some(100), None >> }
FillPrices == {105}
BrokerCharges == {None, Some(5)}
\* new Date(): the local time of day in minutes since midnight when the run starts
\* (15:30, the default end of trading).
ClockStarts == {930}
GateClockStarts == {554, 930}
AllClockStarts == ClockStarts \cup GateClockStarts

\* The trades table: the columns schema.sql creates, and the table getTodayPnL
\* presumes (CREATE TABLE IF NOT EXISTS leaves an existing table as it is).
ShippedTradesColumns ==
  {"id", "user_id", "order_id", "symbol", "side", "quantity", "price", "charges",
   "pnl", "executed_at"}
TradesSchemas == {ShippedTradesColumns, ShippedTradesColumns \cup {"realized_pnl"}}

\* ------------------------------------------------------ strategy configuration
\* "HH:MM".split(':').map(Number) is the pair <<HH, MM>>; None when not configured.
DefaultStartTime == <<9, 15>>
DefaultEndTime == <<15, 30>>

BaseConfig ==
  [ allowedSymbols |-> {}, blockedSymbols |-> {},
    startTime |-> None, endTime |-> None,
    maxPositions |-> 0, dailyLossLimit |-> 0, maxPositionSize |-> 0,
    defaultQuantity |-> 0, orderType |-> "", productType |-> "", stopLoss |-> 0 ]

BlockingConfig == [BaseConfig EXCEPT !.blockedSymbols = {"RELIANCE"}]

LimitConfig ==
  [BaseConfig EXCEPT !.orderType = "LIMIT", !.maxPositions = 2,
                     !.maxPositionSize = 150, !.stopLoss = 2,
                     !.startTime = Some(<<9, 15>>), !.endTime = Some(<<15, 30>>)]

\* The user the webhook runs the pipeline for, and another user of the system.
PipelineUser == 1
OtherUser == 2

StrategyRow(id, userId, active, cfg) ==
  [id |-> id, user_id |-> userId, is_active |-> active, config |-> cfg]

\* The strategies table: rows are created and toggled by their owners, read-only to
\* the pipeline.
StrategyTables ==
  { << StrategyRow(1, OtherUser, TRUE, BaseConfig) >>,
    << StrategyRow(1, PipelineUser, TRUE, BaseConfig) >>,
    << StrategyRow(1, PipelineUser, TRUE, BlockingConfig),
       StrategyRow(2, PipelineUser, FALSE, BaseConfig) >>,
    << StrategyRow(1, PipelineUser, TRUE, BaseConfig),
       StrategyRow(2, PipelineUser, TRUE, LimitConfig) >> }

\* settings.fyers_credentials of the user: no row / no token in it / a token.
CredentialStates == {"none", "noToken", "ok"}

\* The positions table of the user before the run: unique per symbol.
PositionTables ==
  { [s \in {"TCS"} |-> [quantity |-> 1, is_active |-> TRUE]] }

VARIABLES
  closeReq,     \* manual close requests (POST /:symbol/close): position and locals
  server,       \* the server process: "running", "stopping" (timers stopped), "exited"
  hook,         \* the webhook request being fanned out to the users: position and locals
  autoExecute,  \* settings.auto_execute_enabled of the user (None: no settings row)
  tradesColumns, \* the columns of the trades table in the connected database
  strategies,   \* strategies table (rows of the user)
  credentials,  \* settings.fyers_credentials of the user
  alerts,       \* alerts table: sequence of rows, index = id
  orders,       \* orders table: sequence of rows, index = id
  trades,       \* trades table: sequence of rows
  positions,    \* positions table: symbol -> row
  brokerBook,   \* the broker's order book: sequence of entries, index = broker order id
  now,          \* the clock behind new Date() / CURRENT_TIMESTAMP
  pa,           \* processAlert invocations: alert id -> position and locals
  tick,         \* reconciliation ticks: tick -> position and locals
  route,        \* the HTTP order routes (manual order, cancel): position and locals
  alertWrites,  \* per alert, how many times updateAlertStatus wrote its row
  placeFailed,  \* order ids whose placeOrder call threw
  filledSeen    \* per order, how many times monitorOrderStatus saw status FILLED

vars == << closeReq, server, hook, autoExecute, tradesColumns, strategies, credentials, alerts, orders, trades, positions, brokerBook,
           now, pa, tick, route, alertWrites, placeFailed, filledSeen >>

AlertIds == 1 .. MaxAlerts
OrderIds == 1 .. MaxOrders
TickIds == 1 .. NumTicks
BrokerIds == 1 .. MaxBrokerOrders
CloseIds == 1 .. NumCloseRequests

\* ------------------------------------------------------------- pure functions

\* "HH:MM" -> minutes since midnight (startHour * 60 + startMin).
ToMinutes(hm) == hm[1] * 60 + hm[2]

\* Variant: a symbol on the allow list is accepted before the block list is read.
isSymbolAllowed_AllowedWins(symbol, config) ==
  IF symbol \in config.allowedSymbols THEN TRUE
  ELSE IF symbol \in config.blockedSymbols THEN FALSE
  ELSE config.allowedSymbols = {}

isSymbolAllowed(symbol, config) ==
  IF symbol \in config.blockedSymbols THEN FALSE
  ELSE IF config.allowedSymbols # {} /\ symbol \notin config.allowedSymbols THEN FALSE
  ELSE TRUE

\* Variant: the end of the window is exclusive.
isWithinTradingHours_EndExclusive(currentTime, config) ==
  LET startTime == IF config.startTime # None THEN config.startTime[1] ELSE DefaultStartTime
      endTime == IF config.endTime # None THEN config.endTime[1] ELSE DefaultEndTime
  IN currentTime >= ToMinutes(startTime) /\ currentTime < ToMinutes(endTime)

isWithinTradingHours(currentTime, config) ==
  LET startTime == IF config.startTime # None THEN config.startTime[1] ELSE DefaultStartTime
      endTime == IF config.endTime # None THEN config.endTime[1] ELSE DefaultEndTime
  IN currentTime >= ToMinutes(startTime) /\ currentTime <= ToMinutes(endTime)

\* Variant: closed positions are counted too.
getActivePositionsCount_AllRows(pos) == Cardinality(DOMAIN pos)

\* Variant: orders not yet settled count as positions.
getActivePositionsCount_CountsOpenOrders(pos) ==
  Cardinality({s \in DOMAIN pos : pos[s].is_active})
    + Cardinality({o \in 1 .. Len(orders) : orders[o].status \in {"PENDING", "SUBMITTED"}})

\* SELECT COUNT(*) as count FROM positions WHERE user_id = $1 AND is_active = true
getActivePositionsCount(pos) ==
  Cardinality({s \in DOMAIN pos : pos[s].is_active})

RealizedPnlOf(t) == IF t.realized_pnl = None THEN 0 ELSE t.realized_pnl[1]

\* SUM(realized_pnl) over the trades rows (all modelled trades are today's).
RECURSIVE SumRealizedPnl(_)
SumRealizedPnl(trs) ==
  IF trs = <<>> THEN 0 ELSE RealizedPnlOf(Head(trs)) + SumRealizedPnl(Tail(trs))

\* SELECT COALESCE(SUM(realized_pnl), 0) as total_pnl FROM trades: the total, or
\* None when the query fails because the table has no such column (the error is
\* thrown out of performRiskChecks).
getTodayPnL(cols, trs) ==
  IF "realized_pnl" \in cols THEN Some(SumRealizedPnl(trs)) ELSE None

\* "ok", the reason of the first failing check, or "throws" when a query fails.
performRiskChecks(alertData, config, cols, pos, trs) ==
  LET maxPositions == IF config.maxPositions # 0 THEN config.maxPositions
                      ELSE DefaultMaxPositions
      dailyLossLimit == IF config.dailyLossLimit # 0 THEN config.dailyLossLimit
                        ELSE DefaultDailyLossLimit
      maxPositionSize == IF config.maxPositionSize # 0 THEN config.maxPositionSize
                         ELSE DefaultMaxPositionSize
      positionValue == Mul(alertData.price, alertData.quantity)
  IN IF getActivePositionsCount(pos) >= maxPositions
       THEN "Maximum positions limit reached"
     ELSE IF getTodayPnL(cols, trs) = None
       THEN "throws"
     ELSE IF getTodayPnL(cols, trs)[1] <= 0 - dailyLossLimit
       THEN "Daily loss limit reached"
     ELSE IF Gt(positionValue, maxPositionSize)
       THEN "Position size exceeds limit"
     ELSE "ok"

\* alertData.price * (1 - stopLoss / 100); NaN (None) when the alert has no price.
StopPrice(price, stopLoss) ==
  IF price = None THEN None ELSE Some((price[1] * (100 - stopLoss)) \div 100)

generateOrderParams(alertData, config) ==
  LET type == IF config.orderType # "" THEN config.orderType ELSE "MARKET"
  IN [ symbol |-> alertData.symbol,
       side |-> alertData.action,
       qty |-> OrElse(alertData.quantity, IF config.defaultQuantity # 0
                                            THEN config.defaultQuantity ELSE 1),
       type |-> type,
       productType |-> IF config.productType # "" THEN config.productType
                       ELSE "INTRADAY",
       limitPrice |-> IF type = "LIMIT" THEN alertData.price ELSE None,
       stopPrice |-> IF config.stopLoss # 0 /\ alertData.action = "BUY"
                       THEN StopPrice(alertData.price, config.stopLoss) ELSE None ]

\* FyersAPI.validateOrderData: the side sent to the broker (+1 buy, -1 sell).
BrokerSide(side) == IF side = "BUY" THEN 1 ELSE 0 - 1

\* ------------------------------------------------------------------ rows
AlertRow(symbol, action, price, quantity) ==
  [ symbol |-> symbol, action |-> action, price |-> price, quantity |-> quantity,
    status |-> "PENDING", processed_at |-> None ]

\* UPDATE alerts SET status = $1, processed_at = $2 WHERE id = $3
updateAlertStatus(als, alertId, status, t) ==
  [als EXCEPT ![alertId].status = status, ![alertId].processed_at = Some(t)]

\* Variant: the row is stored as SUBMITTED before the broker has been called.
PendingOrderRow_StoredSubmitted(alertId, strategyId, orderParams, t) ==
  [ alert_id |-> alertId, strategy_id |-> strategyId,
    symbol |-> orderParams.symbol, side |-> orderParams.side,
    quantity |-> orderParams.qty, order_type |-> orderParams.type,
    price |-> IF Truthy(orderParams.limitPrice) THEN orderParams.limitPrice
              ELSE orderParams.stopPrice,
    status |-> "SUBMITTED", fyers_order_id |-> 0, updated_at |-> t ]

\* INSERT INTO orders (..., status) VALUES (..., 'PENDING'): no broker order id yet.
PendingOrderRow(alertId, strategyId, orderParams, t) ==
  [ alert_id |-> alertId, strategy_id |-> strategyId,
    symbol |-> orderParams.symbol, side |-> orderParams.side,
    quantity |-> orderParams.qty, order_type |-> orderParams.type,
    price |-> IF Truthy(orderParams.limitPrice) THEN orderParams.limitPrice
              ELSE orderParams.stopPrice,
    status |-> "PENDING", fyers_order_id |-> 0, updated_at |-> t ]

\* Variant: the UPDATE stores the broker order id and forgets the status.
MarkSubmitted_StatusForgotten(ords, orderId, fyersId) ==
  [ords EXCEPT ![orderId].fyers_order_id = fyersId]

\* UPDATE orders SET fyers_order_id = $1, fyers_response = $2, status = 'SUBMITTED'
MarkSubmitted(ords, orderId, fyersId) ==
  [ords EXCEPT ![orderId].fyers_order_id = fyersId, ![orderId].status = "SUBMITTED"]

\* INSERT INTO orders (..., status, fyers_order_id, ...) VALUES (..., 'SUBMITTED', $7, $8)
SubmittedOrderRow(symbol, side, qty, type, fyersId, t) ==
  [ alert_id |-> 0, strategy_id |-> 0, symbol |-> symbol, side |-> side,
    quantity |-> qty, order_type |-> type, price |-> None,
    status |-> "SUBMITTED", fyers_order_id |-> fyersId, updated_at |-> t ]

\* UPDATE orders SET status = $1, updated_at = $2 WHERE id = $3
SetOrderStatus(ords, orderId, status, t) ==
  [ords EXCEPT ![orderId].status = status, ![orderId].updated_at = t]

\* Variant: quantity and price bound to the wrong placeholders.
TradeRow_Swapped(orderId, orderData, fyersOrder) ==
  [ order_id |-> orderId, symbol |-> orderData.symbol, side |-> orderData.side,
    quantity |-> fyersOrder.avgPrice, price |-> fyersOrder.filledQty,
    charges |-> OrElse(fyersOrder.charges, 0), realized_pnl |-> None ]

\* INSERT INTO trades (user_id, order_id, symbol, side, quantity, price, charges, executed_at)
TradeRow(orderId, orderData, fyersOrder) ==
  [ order_id |-> orderId, symbol |-> orderData.symbol, side |-> orderData.side,
    quantity |-> fyersOrder.filledQty, price |-> fyersOrder.avgPrice,
    charges |-> OrElse(fyersOrder.charges, 0), realized_pnl |-> None ]

\* The entry the broker books for an accepted order.
BrokerEntry(orderData) ==
  [ status |-> "PENDING", side |-> BrokerSide(orderData.side), qty |-> orderData.qty,
    filledQty |-> 0, avgPrice |-> 0, charges |-> None ]

\* FyersAPI.validateOrderData: symbol, qty, type and side must be truthy.
validateOrderData(orderData) ==
  orderData.symbol # "" /\ orderData.qty # 0 /\ orderData.type # "" /\ orderData.side # ""

\* ------------------------------------------------------------------ Init
IdlePa == [pc |-> "none", rows |-> <<>>, i |-> 0, orderId |-> 0, fyersId |-> 0]
IdleTick == [pc |-> "idle", rows |-> <<>>, k |-> 0, fyersOrder |-> None]
IdleRoute == [pc |-> "idle", orderId |-> 0, fyersId |-> 0, req |-> None]
IdleClose == [pc |-> "idle", quantity |-> 0, price |-> 0, position |-> None]
IdleHook == [pc |-> "idle", alertData |-> None, users |-> <<>>, u |-> 0, alertId |-> 0,
             attempted |-> <<>>, invoked |-> <<>>, processedAlerts |-> <<>>]

Init ==
  /\ closeReq = [c \in CloseIds |-> IdleClose]
  /\ server = "running"
  /\ hook = IdleHook
  /\ autoExecute = Some(FALSE)
  /\ tradesColumns \in TradesSchemas
  /\ strategies \in StrategyTables
  /\ credentials \in CredentialStates
  /\ positions \in PositionTables
  /\ alerts = <<>>
  /\ orders = <<>>
  /\ trades = <<>>
  /\ brokerBook = <<>>
  /\ now \in ClockStarts
  /\ pa = [a \in AlertIds |-> IdlePa]
  /\ tick = [p \in TickIds |-> IdleTick]
  /\ route = IdleRoute
  /\ alertWrites = [a \in AlertIds |-> 0]
  /\ placeFailed = {}
  /\ filledSeen = [o \in OrderIds |-> 0]

\* ------------------------------------------------------------- the clock
ClockTick ==
  /\ \E s \in AllClockStarts : s <= now /\ now < s + MaxTime
  /\ now' = now + 1
  /\ UNCHANGED << closeReq, server, hook, autoExecute, tradesColumns, strategies, credentials, alerts, orders, trades, positions,
                  brokerBook, pa, tick, route, alertWrites, placeFailed, filledSeen >>

\* ------------------------------------------------- webhook: alert ingestion
\* router.post('/chartlink'): store the alert (status PENDING by default) and call
\* processAlert(user.id, alertId, alertData).
Webhook(symbol, action, price, quantity) ==
  /\ Len(alerts) < MaxAlerts
  /\ alerts' = Append(alerts, AlertRow(symbol, action, price, quantity))
  /\ pa' = [pa EXCEPT ![Len(alerts) + 1] = [IdlePa EXCEPT !.pc = "load"]]
  /\ UNCHANGED << closeReq, server, hook, autoExecute, tradesColumns, strategies, credentials, orders, trades, positions, brokerBook,
                  now, tick, route, alertWrites, placeFailed, filledSeen >>

\* ------------------------------------------ OrderExecutionService.processAlert
StrategyConfig(id) == strategies[id].config

\* SELECT * FROM strategies WHERE user_id = $1 AND is_active = true
\* Variant: the query does not filter on is_active.
RECURSIVE ActiveIds_IgnoresFlag(_, _)
ActiveIds_IgnoresFlag(rows, userId) ==
  IF rows = <<>> THEN <<>>
  ELSE (IF Head(rows).user_id = userId THEN << Head(rows).id >> ELSE <<>>)
         \o ActiveIds_IgnoresFlag(Tail(rows), userId)

RECURSIVE ActiveIds(_, _)
ActiveIds(rows, userId) ==
  IF rows = <<>> THEN <<>>
  ELSE (IF Head(rows).user_id = userId /\ Head(rows).is_active
          THEN << Head(rows).id >> ELSE <<>>) \o ActiveIds(Tail(rows), userId)

getActiveStrategies(userId) == ActiveIds(strategies, userId)

\* The for loop of processAlert: on to the next strategy, or return.
NextStrategy(p) ==
  IF p.i < Len(p.rows)
    THEN [p EXCEPT !.pc = "check", !.i = p.i + 1, !.orderId = 0, !.fyersId = 0]
    ELSE [p EXCEPT !.pc = "done", !.orderId = 0, !.fyersId = 0]

\* processAlert, lines 59-68: load the active strategies.
LoadStrategies(a) ==
  /\ pa[a].pc = "load"
  /\ pa' = [pa EXCEPT ![a] =
              IF getActiveStrategies(PipelineUser) = <<>>
                THEN [pa[a] EXCEPT !.pc = "ignore"]
                ELSE [pa[a] EXCEPT !.pc = "check",
                                   !.rows = getActiveStrategies(PipelineUser), !.i = 1]]
  /\ UNCHANGED << closeReq, server, hook, autoExecute, tradesColumns, strategies, credentials, alerts, orders, trades, positions, brokerBook,
                  now, tick, route, alertWrites, placeFailed, filledSeen >>

\* Variant: the alert without a strategy is marked PROCESSED.
IgnoreAlert_MarksProcessed(a) ==
  /\ pa[a].pc = "ignore"
  /\ alerts' = updateAlertStatus(alerts, a, "PROCESSED", now)
  /\ alertWrites' = [alertWrites EXCEPT ![a] = @ + 1]
  /\ pa' = [pa EXCEPT ![a].pc = "done"]
  /\ UNCHANGED << closeReq, server, hook, autoExecute, tradesColumns, strategies, credentials, orders, trades, positions, brokerBook, now, tick, route, placeFailed, filledSeen >>

\* processAlert, line 66: no active strategy, the alert is IGNORED.
IgnoreAlert(a) ==
  /\ pa[a].pc = "ignore"
  /\ alerts' = updateAlertStatus(alerts, a, "IGNORED", now)
  /\ alertWrites' = [alertWrites EXCEPT ![a] = @ + 1]
  /\ pa' = [pa EXCEPT ![a].pc = "done"]
  /\ UNCHANGED << closeReq, server, hook, autoExecute, tradesColumns, strategies, credentials, orders, trades, positions, brokerBook,
                  now, tick, route, placeFailed, filledSeen >>

\* The eligibility gate of processAlertForStrategy (lines 95-130).
Eligible(alertData, config, currentTime, cols, pos, trs) ==
  /\ isSymbolAllowed(alertData.symbol, config)
  /\ isWithinTradingHours(currentTime, config)
  /\ performRiskChecks(alertData, config, cols, pos, trs) = "ok"

\* Variant: a strategy that rejects the alert marks it IGNORED.
CheckStrategy_RejectionMarksIgnored(a) ==
  /\ pa[a].pc = "check"
  /\ IF Eligible(alerts[a], StrategyConfig(pa[a].rows[pa[a].i]), now,
                 tradesColumns, positions, trades)
       THEN /\ pa' = [pa EXCEPT ![a].pc = "insert"]
            /\ UNCHANGED << alerts, alertWrites >>
       ELSE /\ pa' = [pa EXCEPT ![a] = NextStrategy(pa[a])]
            /\ alerts' = updateAlertStatus(alerts, a, "IGNORED", now)
            /\ alertWrites' = [alertWrites EXCEPT ![a] = @ + 1]
  /\ UNCHANGED << closeReq, server, hook, autoExecute, tradesColumns, strategies, credentials, orders, trades, positions, brokerBook,
                  now, tick, route, placeFailed, filledSeen >>

\* processAlertForStrategy up to the call of executeOrder: symbol filter, trading
\* hours, risk checks, order parameters (always an object, so never "no order").
CheckStrategy(a) ==
  /\ pa[a].pc = "check"
  /\ pa' = [pa EXCEPT ![a] =
              IF Eligible(alerts[a], StrategyConfig(pa[a].rows[pa[a].i]), now,
                          tradesColumns, positions, trades)
                THEN [pa[a] EXCEPT !.pc = "insert"]
                ELSE NextStrategy(pa[a])]
  /\ UNCHANGED << closeReq, server, hook, autoExecute, tradesColumns, strategies, credentials, alerts, orders, trades, positions, brokerBook,
                  now, tick, route, alertWrites, placeFailed, filledSeen >>

OrderParamsOf(a) == generateOrderParams(alerts[a], StrategyConfig(pa[a].rows[pa[a].i]))

\* Variant: a stored credentials row is enough, whether or not it holds a token.
HasAccessToken_RowOnly(c) == c # "none"

\* executeOrder, line 266: !credentials || !credentials.accessToken is false.
HasAccessToken(c) == c = "ok"

\* executeOrder, lines 263-287: credentials, then the PENDING order row.
InsertOrder(a) ==
  /\ pa[a].pc = "insert"
  /\ IF ~HasAccessToken(credentials)
       THEN /\ pa' = [pa EXCEPT ![a].pc = "catch"]
            /\ UNCHANGED orders
       ELSE /\ Len(orders) < MaxOrders
            /\ orders' = Append(orders,
                  PendingOrderRow(a, pa[a].rows[pa[a].i], OrderParamsOf(a), now))
            /\ pa' = [pa EXCEPT ![a].pc = "place", ![a].orderId = Len(orders) + 1]
  /\ UNCHANGED << closeReq, server, hook, autoExecute, tradesColumns, strategies, credentials, alerts, trades, positions, brokerBook,
                  now, tick, route, alertWrites, placeFailed, filledSeen >>

\* executeOrder, line 290: fyersAPI.placeOrder returns the broker's order; capacity bounds
\* the number of orders the broker's book holds.
PlaceOrderAccepted(a, capacity) ==
  /\ pa[a].pc = "place"
  /\ validateOrderData(OrderParamsOf(a))
  /\ Len(brokerBook) < capacity
  /\ brokerBook' = Append(brokerBook, BrokerEntry(OrderParamsOf(a)))
  /\ pa' = [pa EXCEPT ![a].pc = "update", ![a].fyersId = Len(brokerBook) + 1]
  /\ UNCHANGED << closeReq, server, hook, autoExecute, tradesColumns, strategies, credentials, alerts, orders, trades, positions,
                  now, tick, route, alertWrites, placeFailed, filledSeen >>

PlaceOrderOk(a) == PlaceOrderAccepted(a, MaxBrokerOrders)

\* executeOrder, line 290: fyersAPI.placeOrder throws (validation, HTTP error, s != 'ok').
PlaceOrderFails(a) ==
  /\ pa[a].pc = "place"
  /\ placeFailed' = placeFailed \cup {pa[a].orderId}
  /\ pa' = [pa EXCEPT ![a].pc = "catch"]
  /\ UNCHANGED << closeReq, server, hook, autoExecute, tradesColumns, strategies, credentials, alerts, orders, trades, positions, brokerBook,
                  now, tick, route, alertWrites, filledSeen >>

\* Variant: the loop takes the next strategy as soon as the row is updated, the
\* alert status write still to come.
UpdateOrder_StartsNext(a) ==
  /\ pa[a].pc = "update"
  /\ orders' = MarkSubmitted(orders, pa[a].orderId, pa[a].fyersId)
  /\ pa' = [pa EXCEPT ![a] = NextStrategy(pa[a])]
  /\ UNCHANGED << closeReq, server, hook, autoExecute, tradesColumns, strategies, credentials, alerts, trades, positions, brokerBook,
                  now, tick, route, alertWrites, placeFailed, filledSeen >>

\* executeOrder, lines 293-302: the row becomes SUBMITTED with the broker order id.
UpdateOrder(a) ==
  /\ pa[a].pc = "update"
  /\ orders' = MarkSubmitted(orders, pa[a].orderId, pa[a].fyersId)
  /\ pa' = [pa EXCEPT ![a].pc = "processed"]
  /\ UNCHANGED << closeReq, server, hook, autoExecute, tradesColumns, strategies, credentials, alerts, trades, positions, brokerBook,
                  now, tick, route, alertWrites, placeFailed, filledSeen >>

\* executeOrder, line 314: the alert is PROCESSED; back in the loop of processAlert.
MarkProcessed(a) ==
  /\ pa[a].pc = "processed"
  /\ alerts' = updateAlertStatus(alerts, a, "PROCESSED", now)
  /\ alertWrites' = [alertWrites EXCEPT ![a] = @ + 1]
  /\ pa' = [pa EXCEPT ![a] = NextStrategy(pa[a])]
  /\ UNCHANGED << closeReq, server, hook, autoExecute, tradesColumns, strategies, credentials, orders, trades, positions, brokerBook,
                  now, tick, route, placeFailed, filledSeen >>

\* Variant: the rethrown error ends the loop over the strategies.
CatchExecuteError_LeavesLoop(a) ==
  /\ pa[a].pc = "catch"
  /\ alerts' = updateAlertStatus(alerts, a, "ERROR", now)
  /\ alertWrites' = [alertWrites EXCEPT ![a] = @ + 1]
  /\ pa' = [pa EXCEPT ![a].pc = "done", ![a].orderId = 0, ![a].fyersId = 0]
  /\ UNCHANGED << closeReq, server, hook, autoExecute, tradesColumns, strategies, credentials, orders, trades, positions, brokerBook, now, tick, route, placeFailed, filledSeen >>

\* executeOrder, lines 322-335: the alert is ERROR and the error is rethrown; the
\* loop of processAlert (lines 74-81) logs it and goes on.
CatchExecuteError(a) ==
  /\ pa[a].pc = "catch"
  /\ alerts' = updateAlertStatus(alerts, a, "ERROR", now)
  /\ alertWrites' = [alertWrites EXCEPT ![a] = @ + 1]
  /\ pa' = [pa EXCEPT ![a] = NextStrategy(pa[a])]
  /\ UNCHANGED << closeReq, server, hook, autoExecute, tradesColumns, strategies, credentials, orders, trades, positions, brokerBook,
                  now, tick, route, placeFailed, filledSeen >>

\* ---------------------------------------------------------------- the broker
\* What getOrderBook reports for an order changes as the exchange works on it.
OpenAtBroker(f) == brokerBook[f].status \in {"PENDING", "PARTIALLY_FILLED"}

BrokerFills(f, price, charges) ==
  /\ f \in 1 .. Len(brokerBook)
  /\ OpenAtBroker(f)
  /\ brokerBook' = [brokerBook EXCEPT ![f].status = "FILLED",
                                      ![f].filledQty = brokerBook[f].qty,
                                      ![f].avgPrice = price,
                                      ![f].charges = charges]
  /\ UNCHANGED << closeReq, server, hook, autoExecute, tradesColumns, strategies, credentials, alerts, orders, trades, positions,
                  now, pa, tick, route, alertWrites, placeFailed, filledSeen >>

BrokerFillsPartly(f, price) ==
  /\ f \in 1 .. Len(brokerBook)
  /\ brokerBook[f].status = "PENDING"
  /\ brokerBook[f].qty > 1
  /\ brokerBook' = [brokerBook EXCEPT ![f].status = "PARTIALLY_FILLED",
                                      ![f].filledQty = 1,
                                      ![f].avgPrice = price]
  /\ UNCHANGED << closeReq, server, hook, autoExecute, tradesColumns, strategies, credentials, alerts, orders, trades, positions,
                  now, pa, tick, route, alertWrites, placeFailed, filledSeen >>

BrokerRejects(f) ==
  /\ f \in 1 .. Len(brokerBook)
  /\ brokerBook[f].status = "PENDING"
  /\ brokerBook' = [brokerBook EXCEPT ![f].status = "REJECTED"]
  /\ UNCHANGED << closeReq, server, hook, autoExecute, tradesColumns, strategies, credentials, alerts, orders, trades, positions,
                  now, pa, tick, route, alertWrites, placeFailed, filledSeen >>

\* ------------------------------------------------ the reconciliation cron job
\* SELECT * FROM orders WHERE status IN ('PENDING', 'SUBMITTED')
\*   AND fyers_order_id IS NOT NULL
RECURSIVE SelectOpenOrders(_, _)
SelectOpenOrders(ords, id) ==
  IF id > Len(ords) THEN <<>>
  ELSE (IF ords[id].status \in {"PENDING", "SUBMITTED"} /\ ords[id].fyers_order_id # 0
          THEN << id >> ELSE <<>>) \o SelectOpenOrders(ords, id + 1)

\* Variant: every status but REJECTED is taken for a fill.
IsFilled_NotRejected(fyersOrder) == fyersOrder.status # "REJECTED"

\* monitorOrderStatus, line 420: fyersOrder.status === 'FILLED'
IsFilled(fyersOrder) == fyersOrder.status = "FILLED"

\* The for loop of CronJobs.monitorOrderStatus: on to the next order, or the tick ends.
NextOrder(t) ==
  IF t.k < Len(t.rows)
    THEN [t EXCEPT !.pc = "read", !.k = t.k + 1, !.fyersOrder = None]
    ELSE IdleTick

\* CronJobs.monitorOrderStatus, lines 53-57: a tick starts (every 30 seconds,
\* whether or not the previous tick has finished) and selects its orders.
TickSelect(p) ==
  /\ tick[p].pc = "idle"
  /\ \A q \in TickIds : q < p => tick[q].pc # "idle"
  /\ tick' = [tick EXCEPT ![p] =
                IF SelectOpenOrders(orders, 1) = <<>> THEN IdleTick
                ELSE [IdleTick EXCEPT !.pc = "read", !.rows = SelectOpenOrders(orders, 1),
                                      !.k = 1]]
  /\ UNCHANGED << closeReq, server, hook, autoExecute, tradesColumns, strategies, credentials, alerts, orders, trades, positions, brokerBook,
                  now, pa, route, alertWrites, placeFailed, filledSeen >>

\* What monitorOrderStatus keeps of the order book entry.
BookEntry(f) ==
  [ status |-> brokerBook[f].status, filledQty |-> brokerBook[f].filledQty,
    avgPrice |-> brokerBook[f].avgPrice, charges |-> brokerBook[f].charges ]

\* monitorOrderStatus, lines 386-410: read the order row and the credentials, then
\* getOrderBook and find the order in it. The columns of the row used later (id,
\* user_id, symbol, side, fyers_order_id) are never rewritten once fyers_order_id is
\* set and the credentials do not change, so the reads are one step with the call.
MonitorFetch(p) ==
  /\ tick[p].pc = "read"
  /\ tick' = [tick EXCEPT ![p] =
                IF orders[tick[p].rows[tick[p].k]].fyers_order_id = 0 \/ credentials # "ok"
                  THEN NextOrder(tick[p])
                  ELSE [tick[p] EXCEPT !.pc = "update",
                          !.fyersOrder =
                             Some(BookEntry(orders[tick[p].rows[tick[p].k]].fyers_order_id))]]
  /\ UNCHANGED << closeReq, server, hook, autoExecute, tradesColumns, strategies, credentials, alerts, orders, trades, positions, brokerBook,
                  now, pa, route, alertWrites, placeFailed, filledSeen >>

\* monitorOrderStatus, lines 412-422: write the broker's status on the row; a FILLED
\* order goes on to createTradeRecord.
MonitorUpdate(p) ==
  /\ tick[p].pc = "update"
  /\ orders' = SetOrderStatus(orders, tick[p].rows[tick[p].k],
                              tick[p].fyersOrder[1].status, now)
  /\ IF IsFilled(tick[p].fyersOrder[1])
       THEN /\ tick' = [tick EXCEPT ![p].pc = "trade"]
            /\ filledSeen' = [filledSeen EXCEPT ![tick[p].rows[tick[p].k]] = @ + 1]
       ELSE /\ tick' = [tick EXCEPT ![p] = NextOrder(tick[p])]
            /\ UNCHANGED filledSeen
  /\ UNCHANGED << closeReq, server, hook, autoExecute, tradesColumns, strategies, credentials, alerts, trades, positions, brokerBook,
                  now, pa, route, alertWrites, placeFailed >>

\* createTradeRecord, lines 434-461: one trades row; no other table is written.
createTradeRecord(p) ==
  /\ tick[p].pc = "trade"
  /\ trades' = Append(trades, TradeRow(tick[p].rows[tick[p].k],
                                       orders[tick[p].rows[tick[p].k]],
                                       tick[p].fyersOrder[1]))
  /\ tick' = [tick EXCEPT ![p] = NextOrder(tick[p])]
  /\ UNCHANGED << closeReq, server, hook, autoExecute, tradesColumns, strategies, credentials, alerts, orders, positions, brokerBook,
                  now, pa, route, alertWrites, placeFailed, filledSeen >>

\* ------------------------------------------------------- the order routes
ManualSides == {"SELL"}

\* router.post('/orders'), lines 127-152: credentials, then placeOrder accepted.
ManualPlace(side) ==
  /\ route.pc = "idle"
  /\ credentials = "ok"
  /\ Len(brokerBook) < MaxBrokerOrders
  /\ brokerBook' = Append(brokerBook,
        BrokerEntry([symbol |-> "TCS", side |-> side, qty |-> 1, type |-> "MARKET"]))
  /\ route' = [IdleRoute EXCEPT !.pc = "manualInsert", !.fyersId = Len(brokerBook) + 1,
                                !.req = Some(side)]
  /\ UNCHANGED << closeReq, server, hook, autoExecute, tradesColumns, strategies, credentials, alerts, orders, trades, positions,
                  now, pa, tick, alertWrites, placeFailed, filledSeen >>

\* router.post('/orders'), lines 155-169: the row is stored as SUBMITTED.
ManualInsert ==
  /\ route.pc = "manualInsert"
  /\ Len(orders) < MaxOrders
  /\ orders' = Append(orders,
        SubmittedOrderRow("TCS", route.req[1], 1, "MARKET", route.fyersId, now))
  /\ route' = IdleRoute
  /\ UNCHANGED << closeReq, server, hook, autoExecute, tradesColumns, strategies, credentials, alerts, trades, positions, brokerBook,
                  now, pa, tick, alertWrites, placeFailed, filledSeen >>

\* router.delete('/orders/:orderId'), lines 264-288: credentials and the order row.
CancelStart(o) ==
  /\ route.pc = "idle"
  /\ o \in 1 .. Len(orders)
  /\ credentials # "none"
  /\ orders[o].fyers_order_id # 0
  /\ route' = [IdleRoute EXCEPT !.pc = "cancelCall", !.orderId = o,
                                !.fyersId = orders[o].fyers_order_id]
  /\ UNCHANGED << closeReq, server, hook, autoExecute, tradesColumns, strategies, credentials, alerts, orders, trades, positions, brokerBook,
                  now, pa, tick, alertWrites, placeFailed, filledSeen >>

\* router.delete('/orders/:orderId'), lines 290-293: fyersAPI.cancelOrder; the
\* broker cancels an order that is still open and refuses any other.
CancelCall ==
  /\ route.pc = "cancelCall"
  /\ IF credentials = "ok" /\ OpenAtBroker(route.fyersId)
       THEN /\ brokerBook' = [brokerBook EXCEPT ![route.fyersId].status = "CANCELLED"]
            /\ route' = [route EXCEPT !.pc = "cancelUpdate"]
       ELSE /\ route' = IdleRoute
            /\ UNCHANGED brokerBook
  /\ UNCHANGED << closeReq, server, hook, autoExecute, tradesColumns, strategies, credentials, alerts, orders, trades, positions,
                  now, pa, tick, alertWrites, placeFailed, filledSeen >>

\* router.delete('/orders/:orderId'), lines 296-299: the row becomes CANCELLED.
CancelUpdate ==
  /\ route.pc = "cancelUpdate"
  /\ orders' = SetOrderStatus(orders, route.orderId, "CANCELLED", now)
  /\ route' = IdleRoute
  /\ UNCHANGED << closeReq, server, hook, autoExecute, tradesColumns, strategies, credentials, alerts, trades, positions, brokerBook,
                  now, pa, tick, alertWrites, placeFailed, filledSeen >>

\* ------------------------------------------------------------ specification
Next ==
  \/ ClockTick
  \/ \E d \in AlertPayloads : Webhook(d[1], d[2], d[3], d[4])
  \/ \E a \in AlertIds : LoadStrategies(a)
  \/ \E a \in AlertIds : IgnoreAlert(a)
  \/ \E a \in AlertIds : CheckStrategy(a)
  \/ \E a \in AlertIds : InsertOrder(a)
  \/ \E a \in AlertIds : PlaceOrderOk(a)
  \/ \E a \in AlertIds : PlaceOrderFails(a)
  \/ \E a \in AlertIds : UpdateOrder(a)
  \/ \E a \in AlertIds : MarkProcessed(a)
  \/ \E a \in AlertIds : CatchExecuteError(a)
  \/ \E f \in BrokerIds, price \in FillPrices, charges \in BrokerCharges :
          BrokerFills(f, price, charges)
  \/ \E f \in BrokerIds, price \in FillPrices : BrokerFillsPartly(f, price)
  \/ \E f \in BrokerIds : BrokerRejects(f)
  \/ \E p \in TickIds : TickSelect(p)
  \/ \E p \in TickIds : MonitorFetch(p)
  \/ \E p \in TickIds : MonitorUpdate(p)
  \/ \E p \in TickIds : createTradeRecord(p)
  \/ \E side \in ManualSides : ManualPlace(side)
  \/ ManualInsert
  \/ \E o \in OrderIds : CancelStart(o)
  \/ CancelCall
  \/ CancelUpdate

Spec == Init /\ [][Next]_vars

\* ------------------------------------------------ failing database statements
\* Any db.query of the pipeline can reject (connection lost, constraint, timeout).

\* processAlertForStrategy: a query of performRiskChecks rejects; the error leaves
\* processAlertForStrategy and is caught in the loop of processAlert (lines 74-81).
RiskQueryFails(a) ==
  /\ pa[a].pc = "check"
  /\ pa' = [pa EXCEPT ![a] = NextStrategy(pa[a])]
  /\ UNCHANGED << closeReq, server, hook, autoExecute, tradesColumns, strategies, credentials, alerts, orders, trades, positions, brokerBook, now, tick, route, alertWrites, placeFailed, filledSeen >>

\* executeOrder, lines 264-285: the credentials query or the INSERT rejects.
InsertOrderFails(a) ==
  /\ pa[a].pc = "insert"
  /\ pa' = [pa EXCEPT ![a].pc = "catch"]
  /\ UNCHANGED << closeReq, server, hook, autoExecute, tradesColumns, strategies, credentials, alerts, orders, trades, positions, brokerBook, now, tick, route, alertWrites, placeFailed, filledSeen >>

\* executeOrder, lines 293-302: the UPDATE to SUBMITTED rejects after the broker
\* has accepted the order.
UpdateOrderFails(a) ==
  /\ pa[a].pc = "update"
  /\ pa' = [pa EXCEPT ![a].pc = "catch"]
  /\ UNCHANGED << closeReq, server, hook, autoExecute, tradesColumns, strategies, credentials, alerts, orders, trades, positions, brokerBook, now, tick, route, alertWrites, placeFailed, filledSeen >>

\* executeOrder, line 314: updateAlertStatus('PROCESSED') rejects inside the try.
MarkProcessedFails(a) ==
  /\ pa[a].pc = "processed"
  /\ pa' = [pa EXCEPT ![a].pc = "catch"]
  /\ UNCHANGED << closeReq, server, hook, autoExecute, tradesColumns, strategies, credentials, alerts, orders, trades, positions, brokerBook, now, tick, route, alertWrites, placeFailed, filledSeen >>

\* executeOrder, line 332: updateAlertStatus('ERROR') rejects inside the catch; the
\* rejection is caught in the loop of processAlert like the rethrown error.
CatchWriteFails(a) ==
  /\ pa[a].pc = "catch"
  /\ pa' = [pa EXCEPT ![a] = NextStrategy(pa[a])]
  /\ UNCHANGED << closeReq, server, hook, autoExecute, tradesColumns, strategies, credentials, alerts, orders, trades, positions, brokerBook, now, tick, route, alertWrites, placeFailed, filledSeen >>

\* processAlert, line 62: getActiveStrategies rejects; on to the outer catch.
LoadStrategiesFails(a) ==
  /\ pa[a].pc = "load"
  /\ pa' = [pa EXCEPT ![a].pc = "outer"]
  /\ UNCHANGED << closeReq, server, hook, autoExecute, tradesColumns, strategies, credentials, alerts, orders, trades, positions, brokerBook, now, tick, route, alertWrites, placeFailed, filledSeen >>

\* processAlert, line 66: updateAlertStatus('IGNORED') rejects; on to the outer catch.
IgnoreAlertFails(a) ==
  /\ pa[a].pc = "ignore"
  /\ pa' = [pa EXCEPT ![a].pc = "outer"]
  /\ UNCHANGED << closeReq, server, hook, autoExecute, tradesColumns, strategies, credentials, alerts, orders, trades, positions, brokerBook, now, tick, route, alertWrites, placeFailed, filledSeen >>

\* processAlert, lines 84-91: the outer catch marks the alert ERROR.
OuterCatch(a) ==
  /\ pa[a].pc = "outer"
  /\ alerts' = updateAlertStatus(alerts, a, "ERROR", now)
  /\ alertWrites' = [alertWrites EXCEPT ![a] = @ + 1]
  /\ pa' = [pa EXCEPT ![a].pc = "done"]
  /\ UNCHANGED << closeReq, server, hook, autoExecute, tradesColumns, strategies, credentials, orders, trades, positions, brokerBook, now, tick, route, placeFailed, filledSeen >>

\* processAlert, line 90: updateAlertStatus('ERROR') rejects in the outer catch and
\* processAlert rejects to its caller.
OuterCatchFails(a) ==
  /\ pa[a].pc = "outer"
  /\ pa' = [pa EXCEPT ![a].pc = "thrown"]
  /\ UNCHANGED << closeReq, server, hook, autoExecute, tradesColumns, strategies, credentials, alerts, orders, trades, positions, brokerBook, now, tick, route, alertWrites, placeFailed, filledSeen >>

NextFaults ==
  \/ Next
  \/ \E a \in AlertIds : RiskQueryFails(a)
  \/ \E a \in AlertIds : InsertOrderFails(a)
  \/ \E a \in AlertIds : UpdateOrderFails(a)
  \/ \E a \in AlertIds : MarkProcessedFails(a)
  \/ \E a \in AlertIds : CatchWriteFails(a)
  \/ \E a \in AlertIds : LoadStrategiesFails(a)
  \/ \E a \in AlertIds : IgnoreAlertFails(a)
  \/ \E a \in AlertIds : OuterCatch(a)
  \/ \E a \in AlertIds : OuterCatchFails(a)

SpecFaults == Init /\ [][NextFaults]_vars

\* -------------------------------------------- the eligibility gates on their own
\* One alert for one active strategy, with the configuration, the positions, the
\* trades and the time of day drawn from the cases of each gate.
GateSymbolLists ==
  { << {}, {} >>, << {"TCS"}, {} >>, << {}, {"RELIANCE"} >>,
    << {"RELIANCE"}, {"RELIANCE"} >> }

\* tradingHours: not configured, a window wider than the default, a narrower one.
GateHours ==
  { << None, None >>, << Some(<<9, 14>>), Some(<<15, 31>>) >>,
    << Some(<<9, 16>>), Some(<<15, 29>>) >> }

\* riskParams and defaultQuantity:
\* << maxPositions, dailyLossLimit, maxPositionSize, defaultQuantity >>, 0 = not set.
GateRiskParams ==
  { << 2, 0, 0, 0 >>, << 0, 50, 0, 0 >>, << 0, 0, 150, 0 >>, << 0, 0, 150, 3 >>,
    << 2, 50, 150, 0 >> }

GateConfigs ==
  { [BaseConfig EXCEPT !.allowedSymbols = l[1], !.blockedSymbols = l[2],
                       !.startTime = h[1], !.endTime = h[2]] :
      l \in GateSymbolLists, h \in GateHours }
  \cup
  { [BaseConfig EXCEPT !.maxPositions = r[1], !.dailyLossLimit = r[2],
                       !.maxPositionSize = r[3], !.defaultQuantity = r[4]] :
      r \in GateRiskParams }
  \cup
  { [BaseConfig EXCEPT !.blockedSymbols = {"RELIANCE"}, !.maxPositions = 2,
                       !.dailyLossLimit = 50, !.maxPositionSize = 150] }

\* The positions table: n active positions and one closed one.
HeldSymbols ==
  << "TCS", "INFY", "HDFC", "ITC", "SBIN", "LT", "AXIS", "ONGC", "NTPC", "BPCL" >>
GatePositionCounts == {1, 2, 9, 10}
GatePositionTables ==
  { [s \in {HeldSymbols[i] : i \in 1 .. n} \cup {"WIPRO"} |->
       [quantity |-> 1, is_active |-> s # "WIPRO"]] : n \in GatePositionCounts }

\* Today's trades rows with their realized_pnl when the table has the column.
ClosedTrade(pnl) ==
  [ order_id |-> 0, symbol |-> "WIPRO", side |-> "SELL", quantity |-> 1, price |-> 100,
    charges |-> 0, realized_pnl |-> Some(pnl) ]
GateTradeTables ==
  { <<>>, << ClosedTrade(0 - 49) >>, << ClosedTrade(0 - 50) >>,
    << ClosedTrade(0 - 30), ClosedTrade(0 - 20) >>,
    << ClosedTrade(0 - 9999) >>, << ClosedTrade(0 - 10000) >> }

GateAlertPayloads ==
  { << "RELIANCE", "BUY", Some(100), Some(2) >>,
    << "TCS", "BUY", Some(75), Some(2) >>,
    << "TCS", "SELL", Some(50000), Some(2) >>,
    << "TCS", "BUY", Some(50001), Some(2) >>,
    << "TCS", "BUY", Some(200), None >>,
    << "TCS", "SELL", None, Some(2) >> }

GateInit ==
  /\ closeReq = [c \in CloseIds |-> IdleClose]
  /\ server = "running"
  /\ hook = IdleHook
  /\ autoExecute = Some(FALSE)
  /\ tradesColumns \in TradesSchemas
  /\ strategies \in { << StrategyRow(1, PipelineUser, TRUE, cfg) >> : cfg \in GateConfigs }
  /\ credentials = "ok"
  /\ positions \in GatePositionTables
  /\ alerts = <<>>
  /\ orders = <<>>
  /\ trades \in (IF "realized_pnl" \in tradesColumns THEN GateTradeTables ELSE { <<>> })
  /\ brokerBook = <<>>
  /\ now \in GateClockStarts
  /\ pa = [a \in AlertIds |-> IdlePa]
  /\ tick = [p \in TickIds |-> IdleTick]
  /\ route = IdleRoute
  /\ alertWrites = [a \in AlertIds |-> 0]
  /\ placeFailed = {}
  /\ filledSeen = [o \in OrderIds |-> 0]

GateNext ==
  \/ ClockTick
  \/ \E d \in GateAlertPayloads : Webhook(d[1], d[2], d[3], d[4])
  \/ \E a \in AlertIds : LoadStrategies(a)
  \/ \E a \in AlertIds : CheckStrategy(a)
  \/ \E a \in AlertIds : InsertOrder(a)
  \/ \E a \in AlertIds : PlaceOrderOk(a)
  \/ \E a \in AlertIds : PlaceOrderFails(a)
  \/ \E a \in AlertIds : UpdateOrder(a)
  \/ \E a \in AlertIds : MarkProcessed(a)
  \/ \E a \in AlertIds : CatchExecuteError(a)

SpecGates == GateInit /\ [][GateNext]_vars

\* ================================================================== claims
OrderRows == 1 .. Len(orders)
TerminalStatuses == {"FILLED", "CANCELLED", "REJECTED"}
TradesOf(o) == {n \in 1 .. Len(trades) : trades[n].order_id = o}

RECURSIVE TradedQuantity(_, _)
TradedQuantity(o, n) ==
  IF n = 0 THEN 0
  ELSE (IF trades[n].order_id = o THEN trades[n].quantity ELSE 0) + TradedQuantity(o, n - 1)

\* C1: an alert whose action is HOLD never gets an Order row.
C1_HoldCreatesNoOrder ==
  \A o \in OrderRows :
    orders[o].alert_id # 0 => alerts[orders[o].alert_id].action # "HOLD"

\* C2: a successful execution takes the one Order row of (alert, strategy) from
\* PENDING without a broker order id to SUBMITTED with the id the broker returned,
\* and when executeOrder returns the alert is PROCESSED and that row is the only
\* one of (alert, strategy) and carries the broker order id.
C2_SuccessfulExecution ==
  [][\A a \in AlertIds :
       /\ (pa[a].pc = "update" /\ pa'[a].pc = "processed") =>
            /\ orders[pa[a].orderId].status = "PENDING"
            /\ orders[pa[a].orderId].fyers_order_id = 0
            /\ orders'[pa[a].orderId].status = "SUBMITTED"
            /\ pa[a].fyersId \in 1 .. Len(brokerBook)
            /\ orders'[pa[a].orderId].fyers_order_id = pa[a].fyersId
       /\ (pa[a].pc = "processed" /\ pa'[a].pc # "processed") =>
            /\ alerts'[a].status = "PROCESSED"
            /\ orders'[pa[a].orderId].fyers_order_id = pa[a].fyersId
            /\ {o \in 1 .. Len(orders') :
                   /\ orders'[o].alert_id = a
                   /\ orders'[o].strategy_id = pa[a].rows[pa[a].i]} = {pa[a].orderId}
    ]_vars

C2_Witness ==
  \E a \in 1 .. Len(alerts), o \in OrderRows :
    /\ pa[a].pc = "done"
    /\ alerts[a].status = "PROCESSED"
    /\ orders[o].alert_id = a
    /\ orders[o].status = "SUBMITTED"
    /\ orders[o].fyers_order_id # 0

\* C3: an Order row whose placeOrder call failed stays PENDING without a broker
\* order id and never gets a Trade row, and the failure handling marks its alert
\* ERROR.
C3_BrokerFailureLeavesPending ==
  [][/\ \A o \in placeFailed' :
          /\ orders'[o].status = "PENDING"
          /\ orders'[o].fyers_order_id = 0
          /\ \A n \in 1 .. Len(trades') : trades'[n].order_id # o
     /\ \A a \in AlertIds :
          (pa[a].pc = "catch" /\ pa'[a].pc # "catch" /\ pa[a].orderId \in placeFailed)
            => alerts'[a].status = "ERROR"
    ]_vars

C3_Witness ==
  \E o \in placeFailed :
    /\ pa[orders[o].alert_id].pc = "done"
    /\ alerts[orders[o].alert_id].status = "ERROR"
    /\ \E p \in TickIds : tick[p].pc # "idle"

\* C4: an Order row has a broker order id exactly when its status is not PENDING.
C4_BrokerIdIffPastPending ==
  \A o \in OrderRows :
    (orders[o].fyers_order_id # 0) <=> (orders[o].status # "PENDING")

\* C5: no step changes the status of an order that is FILLED, CANCELLED or REJECTED.
C5_TerminalStatusIsFinal ==
  [][\A o \in OrderRows :
       orders[o].status \in TerminalStatuses => orders'[o].status = orders[o].status
    ]_vars

\* C6: when processAlert has completed, the alert's row was written exactly once
\* and its status is PROCESSED, IGNORED or ERROR.
C6_AlertUpdatedExactlyOnce ==
  \A a \in AlertIds :
    pa[a].pc = "done" =>
      /\ alertWrites[a] = 1
      /\ alerts[a].status \in {"PROCESSED", "IGNORED", "ERROR"}

\* C7: an order whose FILLED status the Reconciler saw exactly once, and whose
\* monitorOrderStatus call has finished, has exactly one Trade row, with the
\* broker's filledQty, its average fill price, and its charges (0 when absent).
C7_OneFillOneTrade ==
  \A o \in OrderRows :
    (/\ filledSeen[o] = 1
     /\ \A p \in TickIds : ~(tick[p].pc = "trade" /\ tick[p].rows[tick[p].k] = o))
    => /\ Cardinality(TradesOf(o)) = 1
       /\ \A n \in TradesOf(o) :
            /\ trades[n].quantity = brokerBook[orders[o].fyers_order_id].filledQty
            /\ trades[n].price = brokerBook[orders[o].fyers_order_id].avgPrice
            /\ trades[n].charges =
                 (IF brokerBook[orders[o].fyers_order_id].charges = None THEN 0
                  ELSE brokerBook[orders[o].fyers_order_id].charges[1])

C7_Witness ==
  \E o \in OrderRows :
    /\ filledSeen[o] = 1
    /\ \A p \in TickIds : tick[p].pc = "idle"
    /\ Cardinality(TradesOf(o)) = 1
    /\ brokerBook[orders[o].fyers_order_id].charges = None

\* C8: the step that records a fill moves the position of the trade's symbol by
\* +quantity for a BUY and -quantity for a SELL, creating it when there is none.
PositionQuantity(pos, symbol) ==
  IF symbol \in DOMAIN pos /\ pos[symbol].is_active THEN pos[symbol].quantity ELSE 0

C8_FillMovesPosition ==
  [][Len(trades') > Len(trades) =>
       LET t == trades'[Len(trades')]
       IN PositionQuantity(positions', t.symbol) =
            PositionQuantity(positions, t.symbol)
              + (IF t.side = "BUY" THEN t.quantity ELSE 0 - t.quantity)
    ]_vars

\* C9: the Trade rows of an order never add up to more than its quantity.
C9_TradesWithinOrderQuantity ==
  \A o \in OrderRows : TradedQuantity(o, Len(trades)) <= orders[o].quantity

\* C10 as stated: a monitorOrderStatus call that finds the broker still reporting
\* PENDING creates no Trade row and changes no position, and when an earlier call
\* has already written PENDING it leaves the stored rows as they were.
MonitorWrites(p) == tick[p].pc = "update" /\ tick'[p] # tick[p]

StillPendingAtBroker(p) ==
  /\ tick[p].fyersOrder[1].status = "PENDING"
  /\ brokerBook[orders[tick[p].rows[tick[p].k]].fyers_order_id].status = "PENDING"

C10_SecondCallChangesNothing ==
  [][\A p \in TickIds :
       (MonitorWrites(p) /\ StillPendingAtBroker(p)) =>
         /\ trades' = trades
         /\ positions' = positions
         /\ orders[tick[p].rows[tick[p].k]].status = "PENDING" => orders' = orders
    ]_vars

\* C10 amended: ... it leaves the stored rows as they were except for the order's
\* updated_at, which every call sets to the current time.
C10_SecondCallOnlyTouchesUpdatedAt ==
  [][\A p \in TickIds :
       (MonitorWrites(p) /\ StillPendingAtBroker(p)) =>
         /\ trades' = trades
         /\ positions' = positions
         /\ tick'[p].pc # "trade"
         /\ orders[tick[p].rows[tick[p].k]].status = "PENDING" =>
              orders' = [orders EXCEPT ![tick[p].rows[tick[p].k]].updated_at = now]
    ]_vars

C10_Witness ==
  \E p \in TickIds :
    /\ tick[p].pc = "update"
    /\ tick[p].fyersOrder[1].status = "PENDING"
    /\ brokerBook[orders[tick[p].rows[tick[p].k]].fyers_order_id].status = "PENDING"
    /\ orders[tick[p].rows[tick[p].k]].status = "PENDING"
    /\ orders[tick[p].rows[tick[p].k]].updated_at # now

\* ---------------------------------------------------- claims C11 .. C20
\* A step of processAlert for alert a from the given position.
StepFrom(a, pc) == pa[a].pc = pc /\ pa'[a] # pa[a]

\* C11: without stored credentials or without an access token in them, the strategy
\* that reaches executeOrder inserts no Order row and calls no broker, and the
\* failure handling marks the alert ERROR.
C11_NoCredentialsNoOrder ==
  [][\A a \in AlertIds :
       credentials \in {"none", "noToken"} =>
         /\ pa'[a].pc \notin {"place", "update", "processed"}
         /\ \A o \in 1 .. Len(orders') : orders'[o].alert_id # a
         /\ StepFrom(a, "insert") =>
              /\ orders' = orders
              /\ brokerBook' = brokerBook
              /\ pa'[a].pc = "catch"
         /\ StepFrom(a, "catch") => alerts'[a].status = "ERROR"
    ]_vars

C11_Witness ==
  \E a \in 1 .. Len(alerts) :
    /\ credentials = "noToken"
    /\ pa[a].pc = "done"
    /\ alerts[a].status = "ERROR"
    /\ orders = <<>>
    /\ brokerBook = <<>>

\* C12: whatever throws while one strategy is processed, the loop goes on to the
\* next active strategy and ends only after the last one; processAlert does not
\* reject to its caller from inside the loop.
StrategyPcs == {"check", "insert", "place", "update", "processed", "catch"}

C12_StrategyErrorsStayInLoop ==
  [][\A a \in AlertIds :
       (pa[a].pc \in StrategyPcs /\ pa'[a] # pa[a]) =>
         /\ pa'[a].pc \in StrategyPcs \cup {"done"}
         /\ pa'[a].rows = pa[a].rows
         /\ pa'[a].i \in {pa[a].i, pa[a].i + 1}
         /\ pa'[a].i = pa[a].i + 1 => pa'[a].pc = "check"
         /\ pa'[a].pc = "done" => pa[a].i = Len(pa[a].rows)
    ]_vars

\* The first strategy inserted its row and failed without any alert write (the
\* broker call and the ERROR write both failed); the second one is executing.
C12_Witness ==
  \E a \in 1 .. Len(alerts), o \in 1 .. Len(orders) :
    /\ pa[a].i = 2
    /\ pa[a].pc = "insert"
    /\ alertWrites[a] = 0
    /\ orders[o].alert_id = a
    /\ orders[o].strategy_id = pa[a].rows[1]
    /\ orders[o].status = "PENDING"

\* C13: with no active strategy of the user, processAlert marks the alert IGNORED
\* and returns, having created no Order row and called no broker.
C13_NoActiveStrategyIgnored ==
  [][\A a \in AlertIds :
       /\ StepFrom(a, "load") =>
            ((\A r \in 1 .. Len(strategies) :
                 ~(strategies[r].user_id = PipelineUser /\ strategies[r].is_active))
               <=> pa'[a].pc = "ignore")
       /\ StepFrom(a, "ignore") =>
            /\ alerts'[a].status = "IGNORED"
            /\ orders' = orders
            /\ brokerBook' = brokerBook
            /\ pa'[a].pc = "done"
            /\ \A o \in 1 .. Len(orders') : orders'[o].alert_id # a
    ]_vars

C13_Witness ==
  \E a \in 1 .. Len(alerts) :
    /\ pa[a].pc = "done"
    /\ alerts[a].status = "IGNORED"
    /\ strategies # <<>>
    /\ \A o \in 1 .. Len(orders) : orders[o].alert_id # a

\* C14: the strategies processAlert works on, and the strategy of every Order row
\* it creates, belong to the user and are active.
C14_OnlyActiveOwnStrategies ==
  /\ \A a \in AlertIds : \A k \in 1 .. Len(pa[a].rows) :
       /\ strategies[pa[a].rows[k]].user_id = PipelineUser
       /\ strategies[pa[a].rows[k]].is_active
  /\ \A o \in 1 .. Len(orders) :
       orders[o].alert_id # 0 =>
         /\ strategies[orders[o].strategy_id].user_id = PipelineUser
         /\ strategies[orders[o].strategy_id].is_active

C14_Witness ==
  \E a \in 1 .. Len(alerts), o \in 1 .. Len(orders), r \in 1 .. Len(strategies) :
    /\ pa[a].pc = "done"
    /\ orders[o].alert_id = a
    /\ strategies[r].user_id = PipelineUser
    /\ ~strategies[r].is_active

\* --- the gates of processAlertForStrategy, as the specification states them
CheckedConfig(a) == strategies[pa[a].rows[pa[a].i]].config

WindowStart(cfg) ==
  IF cfg.startTime = None THEN 9 * 60 + 15
  ELSE cfg.startTime[1][1] * 60 + cfg.startTime[1][2]

WindowEnd(cfg) ==
  IF cfg.endTime = None THEN 15 * 60 + 30
  ELSE cfg.endTime[1][1] * 60 + cfg.endTime[1][2]

SymbolGate(a) ==
  /\ alerts[a].symbol \notin CheckedConfig(a).blockedSymbols
  /\ CheckedConfig(a).allowedSymbols # {} =>
       alerts[a].symbol \in CheckedConfig(a).allowedSymbols

HoursGate(a) == WindowStart(CheckedConfig(a)) <= now /\ now <= WindowEnd(CheckedConfig(a))

ActiveCount == Cardinality({s \in DOMAIN positions : positions[s].is_active})

MaxPositionsOf(cfg) == IF cfg.maxPositions = 0 THEN 10 ELSE cfg.maxPositions

CountGate(a) == ActiveCount < MaxPositionsOf(CheckedConfig(a))

DailyLossLimitOf(cfg) == IF cfg.dailyLossLimit = 0 THEN 10000 ELSE cfg.dailyLossLimit

TodayRealizedPnl == SumRealizedPnl(trades)

\* The daily-loss gate as the code can evaluate it: the query must succeed.
PnlGate(a) ==
  /\ "realized_pnl" \in tradesColumns
  /\ TodayRealizedPnl > 0 - DailyLossLimitOf(CheckedConfig(a))

MaxPositionSizeOf(cfg) == IF cfg.maxPositionSize = 0 THEN 100000 ELSE cfg.maxPositionSize

HasPriceAndQuantity(a) == alerts[a].price # None /\ alerts[a].quantity # None

\* The position-size gate as the code evaluates it: a product that is not a number
\* (price or quantity absent) is never greater than the limit.
SizeGate(a) ==
  HasPriceAndQuantity(a) =>
    alerts[a].price[1] * alerts[a].quantity[1] <= MaxPositionSizeOf(CheckedConfig(a))

\* C15: a strategy whose blockedSymbols holds the alert's symbol is rejected,
\* whatever its allowedSymbols, hours and risk settings: no Order row, no broker call.
C15_BlockedSymbolRejected ==
  [][/\ \A a \in AlertIds :
          (StepFrom(a, "check") /\ alerts[a].symbol \in CheckedConfig(a).blockedSymbols) =>
            /\ pa'[a].pc # "insert"
            /\ orders' = orders
            /\ brokerBook' = brokerBook
     /\ \A o \in 1 .. Len(orders') :
          orders'[o].alert_id # 0 =>
            orders'[o].symbol \notin strategies[orders'[o].strategy_id].config.blockedSymbols
    ]_vars

C15_Witness ==
  \E a \in 1 .. Len(alerts) :
    /\ pa[a].pc = "done"
    /\ alerts[a].symbol \in strategies[1].config.blockedSymbols
    /\ alerts[a].symbol \in strategies[1].config.allowedSymbols
    /\ orders = <<>>
    /\ brokerBook = <<>>

\* C16: the trading-hours gate rejects outside [startTime, endTime] and, all other
\* gates passing, allows inside it, both ends included; 09:15 and 15:30 by default.
C16_TradingHoursInclusive ==
  [][\A a \in AlertIds :
       StepFrom(a, "check") =>
         /\ ~HoursGate(a) => pa'[a].pc # "insert"
         /\ (HoursGate(a) /\ SymbolGate(a) /\ CountGate(a) /\ PnlGate(a) /\ SizeGate(a))
              => pa'[a].pc = "insert"
    ]_vars

C16_Witness ==
  \E a \in 1 .. Len(alerts) :
    /\ pa[a].pc = "insert"
    /\ strategies[1].config.endTime = None
    /\ now = 15 * 60 + 30

\* C17: the max-positions gate rejects at count >= maxPositions and, all other
\* gates passing, allows at count = maxPositions - 1; maxPositions is 10 by default.
C17_MaxPositionsGate ==
  [][\A a \in AlertIds :
       StepFrom(a, "check") =>
         /\ ActiveCount >= MaxPositionsOf(CheckedConfig(a)) => pa'[a].pc # "insert"
         /\ (/\ ActiveCount = MaxPositionsOf(CheckedConfig(a)) - 1
             /\ SymbolGate(a) /\ HoursGate(a) /\ PnlGate(a) /\ SizeGate(a))
              => pa'[a].pc = "insert"
    ]_vars

C17_Witness ==
  \E a \in 1 .. Len(alerts) :
    /\ pa[a].pc = "insert"
    /\ strategies[1].config.maxPositions = 0
    /\ ActiveCount = 9
    /\ Cardinality(DOMAIN positions) = 10

\* C18: the daily-loss gate rejects at today's realized P&L <= -dailyLossLimit and,
\* all other gates passing, allows above it; dailyLossLimit is 10000 by default.
C18_DailyLossGate ==
  [][\A a \in AlertIds :
       StepFrom(a, "check") =>
         /\ TodayRealizedPnl <= 0 - DailyLossLimitOf(CheckedConfig(a)) => pa'[a].pc # "insert"
         /\ (/\ TodayRealizedPnl > 0 - DailyLossLimitOf(CheckedConfig(a))
             /\ SymbolGate(a) /\ HoursGate(a) /\ CountGate(a) /\ SizeGate(a))
              => pa'[a].pc = "insert"
    ]_vars

\* C19: for an alert with price and quantity, the position-size gate rejects at
\* price * quantity > maxPositionSize and, all other gates passing, allows at
\* price * quantity = maxPositionSize; maxPositionSize is 100000 by default.
C19_PositionSizeGate ==
  [][\A a \in AlertIds :
       (StepFrom(a, "check") /\ HasPriceAndQuantity(a)) =>
         /\ alerts[a].price[1] * alerts[a].quantity[1] > MaxPositionSizeOf(CheckedConfig(a))
              => pa'[a].pc # "insert"
         /\ (/\ alerts[a].price[1] * alerts[a].quantity[1]
                  = MaxPositionSizeOf(CheckedConfig(a))
             /\ SymbolGate(a) /\ HoursGate(a) /\ CountGate(a) /\ PnlGate(a))
              => pa'[a].pc = "insert"
    ]_vars

C19_Witness ==
  \E a \in 1 .. Len(alerts) :
    /\ pa[a].pc = "insert"
    /\ HasPriceAndQuantity(a)
    /\ alerts[a].price[1] * alerts[a].quantity[1] = 100000
    /\ strategies[1].config.maxPositionSize = 0

\* C20: no order the broker accepted has alert price * order quantity above the
\* maxPositionSize of its strategy.
C20_SubmittedWithinPositionSize ==
  \A o \in 1 .. Len(orders) :
    (/\ orders[o].alert_id # 0
     /\ orders[o].fyers_order_id # 0
     /\ alerts[orders[o].alert_id].price # None)
    => alerts[orders[o].alert_id].price[1] * orders[o].quantity
         <= MaxPositionSizeOf(strategies[orders[o].strategy_id].config)

\* C21: a strategy whose order type is LIMIT never gets an Order row (and so no
\* broker call) from an alert that carries no price.
C21_LimitWithoutPriceBuildsNoOrder ==
  \A o \in 1 .. Len(orders) :
    (orders[o].alert_id # 0 /\ orders[o].order_type = "LIMIT")
      => alerts[orders[o].alert_id].price # None

\* --------------------------------- the single-strategy auto-trade processAlert
\* processAlert(userId, alertId, alertData) of the function module: settings, then
\* placeOrder, then the INSERT of a SUBMITTED row.
AutoExecuteStates == {None, Some(FALSE), Some(TRUE)}

\* Variant: anything but an explicit false enables auto execution.
IsAutoExecute_NotFalse(v) == v # Some(FALSE)

\* const autoExecute = settings?.auto_execute_enabled === true
IsAutoExecute(v) == v = Some(TRUE)

\* orderData: market order, quantity 1 by default, every action but SELL is a BUY.
AutoOrderData(alertData) ==
  [ symbol |-> alertData.symbol,
    qty |-> OrElse(alertData.quantity, 1),
    side |-> IF alertData.action = "SELL" THEN "SELL" ELSE "BUY",
    type |-> "MARKET",
    productType |-> "INTRADAY" ]

\* INSERT INTO orders (user_id, alert_id, ..., 'MARKET', 'SUBMITTED', fyersOrder.id, ...)
AutoOrderRow(alertId, orderData, fyersId, t) ==
  [ SubmittedOrderRow(orderData.symbol, orderData.side, orderData.qty, "MARKET", fyersId, t)
      EXCEPT !.alert_id = alertId ]

AutoInit ==
  /\ closeReq = [c \in CloseIds |-> IdleClose]
  /\ server = "running"
  /\ hook = IdleHook
  /\ autoExecute \in AutoExecuteStates
  /\ tradesColumns = ShippedTradesColumns
  /\ strategies = <<>>
  /\ credentials \in CredentialStates
  /\ positions \in PositionTables
  /\ alerts = <<>>
  /\ orders = <<>>
  /\ trades = <<>>
  /\ brokerBook = <<>>
  /\ now \in ClockStarts
  /\ pa = [a \in AlertIds |-> IdlePa]
  /\ tick = [p \in TickIds |-> IdleTick]
  /\ route = IdleRoute
  /\ alertWrites = [a \in AlertIds |-> 0]
  /\ placeFailed = {}
  /\ filledSeen = [o \in OrderIds |-> 0]

\* The webhook stores the alert and calls processAlert(user.id, alertId, alertData).
AutoWebhook(symbol, action, price, quantity) ==
  /\ Len(alerts) < MaxAlerts
  /\ alerts' = Append(alerts, AlertRow(symbol, action, price, quantity))
  /\ pa' = [pa EXCEPT ![Len(alerts) + 1] = [IdlePa EXCEPT !.pc = "settings"]]
  /\ UNCHANGED << closeReq, server, hook, autoExecute, tradesColumns, strategies, credentials, orders, trades, positions, brokerBook,
                  now, tick, route, alertWrites, placeFailed, filledSeen >>

\* Lines 8-20: read the settings row; return { skipped: true } unless auto execution
\* is on and an access token is stored.
AutoReadSettings(a) ==
  /\ pa[a].pc = "settings"
  /\ pa' = [pa EXCEPT ![a].pc = IF ~IsAutoExecute(autoExecute) \/ ~HasAccessToken(credentials)
                                  THEN "skipped" ELSE "autoplace"]
  /\ UNCHANGED << closeReq, server, hook, autoExecute, tradesColumns, strategies, credentials, alerts, orders, trades, positions,
                  brokerBook, now, tick, route, alertWrites, placeFailed, filledSeen >>

\* Line 30: fyersAPI.placeOrder returns the broker's order.
AutoPlaceOk(a) ==
  /\ pa[a].pc = "autoplace"
  /\ validateOrderData(AutoOrderData(alerts[a]))
  /\ Len(brokerBook) < MaxBrokerOrders
  /\ brokerBook' = Append(brokerBook, BrokerEntry(AutoOrderData(alerts[a])))
  /\ pa' = [pa EXCEPT ![a].pc = "autoinsert", ![a].fyersId = Len(brokerBook) + 1]
  /\ UNCHANGED << closeReq, server, hook, autoExecute, tradesColumns, strategies, credentials, alerts, orders, trades, positions,
                  now, tick, route, alertWrites, placeFailed, filledSeen >>

\* Line 30: fyersAPI.placeOrder throws; the catch (lines 40-43) logs and rethrows.
AutoPlaceFails(a) ==
  /\ pa[a].pc = "autoplace"
  /\ pa' = [pa EXCEPT ![a].pc = "thrown"]
  /\ UNCHANGED << closeReq, server, hook, autoExecute, tradesColumns, strategies, credentials, alerts, orders, trades, positions,
                  brokerBook, now, tick, route, alertWrites, placeFailed, filledSeen >>

\* Lines 32-39: the Order row is inserted as SUBMITTED, with the broker's order id.
AutoInsert(a) ==
  /\ pa[a].pc = "autoinsert"
  /\ Len(orders) < MaxOrders
  /\ orders' = Append(orders, AutoOrderRow(a, AutoOrderData(alerts[a]), pa[a].fyersId, now))
  /\ pa' = [pa EXCEPT ![a].pc = "submitted", ![a].orderId = Len(orders) + 1]
  /\ UNCHANGED << closeReq, server, hook, autoExecute, tradesColumns, strategies, credentials, alerts, trades, positions, brokerBook,
                  now, tick, route, alertWrites, placeFailed, filledSeen >>

AutoNext ==
  \/ ClockTick
  \/ \E d \in AlertPayloads : AutoWebhook(d[1], d[2], d[3], d[4])
  \/ \E a \in AlertIds : AutoReadSettings(a)
  \/ \E a \in AlertIds : AutoPlaceOk(a)
  \/ \E a \in AlertIds : AutoPlaceFails(a)
  \/ \E a \in AlertIds : AutoInsert(a)
  \/ \E f \in BrokerIds, price \in FillPrices, charges \in BrokerCharges :
          BrokerFills(f, price, charges)
  \/ \E f \in BrokerIds, price \in FillPrices : BrokerFillsPartly(f, price)
  \/ \E f \in BrokerIds : BrokerRejects(f)

SpecAuto == AutoInit /\ [][AutoNext]_vars

\* An invocation that is waiting for the broker's answer to placeOrder.
AtBrokerCall(a) == pa[a].pc \in {"place", "autoplace"}

\* C22: whenever an alert's invocation is inside a placeOrder call, a PENDING Order
\* row of that alert, with no broker order id yet, is already stored.
C22_PendingRowBeforeBrokerCall ==
  \A a \in AlertIds :
    AtBrokerCall(a) =>
      \E o \in 1 .. Len(orders) :
        /\ orders[o].alert_id = a
        /\ orders[o].status = "PENDING"
        /\ orders[o].fyers_order_id = 0

\* C24: with auto_execute_enabled not true, the auto-trade processAlert returns the
\* skipped result from its settings read, and no broker order and no Order row
\* ever exists.
C24_AutoExecuteOffSkips ==
  /\ [](~IsAutoExecute(autoExecute) => orders = <<>> /\ brokerBook = <<>>)
  /\ [][\A a \in AlertIds :
          (pa[a].pc = "settings" /\ pa'[a].pc # "settings" /\ autoExecute # Some(TRUE))
            => pa'[a].pc = "skipped"
       ]_vars

C24_Witness ==
  \E a \in 1 .. Len(alerts) :
    /\ pa[a].pc = "skipped"
    /\ autoExecute = None
    /\ credentials = "ok"

\* ----------------------------------- reconciliation of several orders, shutdown
\* The cron job with NumReconOrders orders already submitted to the broker, any
\* statement of monitorOrderStatus allowed to fail, and the signal handlers.
ReconIds == 1 .. NumReconOrders

\* Order o was placed earlier for quantity o and is open at the broker.
ReconOrderData(o) == [symbol |-> "TCS", side |-> "BUY", qty |-> o, type |-> "MARKET"]

ReconInit ==
  /\ closeReq = [c \in CloseIds |-> IdleClose]
  /\ server = "running"
  /\ hook = IdleHook
  /\ autoExecute = Some(FALSE)
  /\ tradesColumns = ShippedTradesColumns
  /\ strategies = <<>>
  /\ credentials \in CredentialStates
  /\ positions \in PositionTables
  /\ alerts = <<>>
  /\ now \in ClockStarts
  /\ orders = [o \in ReconIds |-> SubmittedOrderRow("TCS", "BUY", o, "MARKET", o, now)]
  /\ trades = <<>>
  /\ brokerBook = [o \in ReconIds |-> BrokerEntry(ReconOrderData(o))]
  /\ pa = [a \in AlertIds |-> IdlePa]
  /\ tick = [p \in TickIds |-> IdleTick]
  /\ route = IdleRoute
  /\ alertWrites = [a \in AlertIds |-> 0]
  /\ placeFailed = {}
  /\ filledSeen = [o \in OrderIds |-> 0]

\* Variant: the error of one order leaves the loop and ends the tick.
MonitorFetchFails_EndsTick(p) ==
  /\ tick[p].pc = "read"
  /\ tick' = [tick EXCEPT ![p] = IdleTick]
  /\ UNCHANGED << closeReq, server, hook, autoExecute, tradesColumns, strategies, credentials, alerts, orders, trades, positions, brokerBook,
                  now, pa, route, alertWrites, placeFailed, filledSeen >>

\* monitorOrderStatus, lines 386-408: the SELECT rejects or finds no row, the
\* credentials query rejects, or getOrderBook throws; monitorOrderStatus rethrows
\* (line 429) and the loop of the cron job catches and logs (cronJobs.js 62-66).
MonitorFetchFails(p) ==
  /\ tick[p].pc = "read"
  /\ tick' = [tick EXCEPT ![p] = NextOrder(tick[p])]
  /\ UNCHANGED << closeReq, server, hook, autoExecute, tradesColumns, strategies, credentials, alerts, orders, trades, positions, brokerBook,
                  now, pa, route, alertWrites, placeFailed, filledSeen >>

\* monitorOrderStatus, lines 414-417: the UPDATE rejects; same way out.
MonitorUpdateFails(p) ==
  /\ tick[p].pc = "update"
  /\ tick' = [tick EXCEPT ![p] = NextOrder(tick[p])]
  /\ UNCHANGED << closeReq, server, hook, autoExecute, tradesColumns, strategies, credentials, alerts, orders, trades, positions, brokerBook,
                  now, pa, route, alertWrites, placeFailed, filledSeen >>

\* createTradeRecord, lines 458-460: the INSERT rejects; the error is logged there.
createTradeRecordFails(p) ==
  /\ tick[p].pc = "trade"
  /\ tick' = [tick EXCEPT ![p] = NextOrder(tick[p])]
  /\ UNCHANGED << closeReq, server, hook, autoExecute, tradesColumns, strategies, credentials, alerts, orders, trades, positions, brokerBook,
                  now, pa, route, alertWrites, placeFailed, filledSeen >>

\* process.on('SIGTERM' | 'SIGINT'): cronJobs.stop() stops the timers, server.close
\* stops accepting connections.
Shutdown ==
  /\ server = "running"
  /\ server' = "stopping"
  /\ UNCHANGED << closeReq, hook, autoExecute, tradesColumns, strategies, credentials, alerts, orders, trades, positions, brokerBook,
                  now, pa, tick, route, alertWrites, placeFailed, filledSeen >>

\* The callback of server.close: the open connections have ended, process.exit(0).
Exit ==
  /\ server = "stopping"
  /\ server' = "exited"
  /\ UNCHANGED << closeReq, hook, autoExecute, tradesColumns, strategies, credentials, alerts, orders, trades, positions, brokerBook,
                  now, pa, tick, route, alertWrites, placeFailed, filledSeen >>

\* The timer fires only while it is scheduled; nothing of the process runs after exit.
ReconNext ==
  \/ Shutdown
  \/ Exit
  \/ ClockTick
  \/ \E f \in ReconIds, price \in FillPrices, charges \in BrokerCharges :
          BrokerFills(f, price, charges)
  \/ \E f \in ReconIds, price \in FillPrices : BrokerFillsPartly(f, price)
  \/ \E f \in ReconIds : BrokerRejects(f)
  \/ server = "running" /\ \E p \in TickIds : TickSelect(p)
  \/ server # "exited" /\ \E p \in TickIds : MonitorFetch(p)
  \/ server # "exited" /\ \E p \in TickIds : MonitorFetchFails(p)
  \/ server # "exited" /\ \E p \in TickIds : MonitorUpdate(p)
  \/ server # "exited" /\ \E p \in TickIds : MonitorUpdateFails(p)
  \/ server # "exited" /\ \E p \in TickIds : createTradeRecord(p)
  \/ server # "exited" /\ \E p \in TickIds : createTradeRecordFails(p)

SpecRecon == ReconInit /\ [][ReconNext]_vars

\* C23: a tick that has selected its orders invokes monitorOrderStatus for each of
\* them in turn, whatever the outcome for the ones before: a step of the tick keeps
\* the selection, moves to the next order only by starting its monitorOrderStatus,
\* and ends the tick only after the last selected order.
C23_TickReachesEveryOrder ==
  [][\A p \in TickIds :
       (tick[p].pc # "idle" /\ tick'[p] # tick[p]) =>
         /\ tick'[p].pc = "idle" => tick[p].k = Len(tick[p].rows)
         /\ tick'[p].pc # "idle" =>
              /\ tick'[p].rows = tick[p].rows
              /\ \/ tick'[p].k = tick[p].k
                 \/ tick'[p].k = tick[p].k + 1 /\ tick'[p].pc = "read"
    ]_vars

\* The second order is being reconciled although the first one's monitorOrderStatus
\* failed (its row still has the status nothing but the pipeline writes).
C23_Witness ==
  \E p \in TickIds :
    /\ credentials = "ok"
    /\ tick[p].rows = << 1, 2 >>
    /\ tick[p].k = 2
    /\ tick[p].pc = "update"
    /\ orders[1].status = "SUBMITTED"

\* C27: once the timers are stopped no tick starts, and the process exits only when
\* no monitorOrderStatus call is in flight.
C27_ShutdownWaitsForReconciliation ==
  /\ [][\A p \in TickIds :
          (server # "running" /\ tick[p].pc = "idle") => tick'[p].pc = "idle"]_vars
  /\ [](server = "exited" => \A p \in TickIds : tick[p].pc = "idle")

\* ------------------------------------- two deliveries for the same user at once
\* Two webhook deliveries have stored their alerts and called processAlert; each
\* await of either invocation is a step, in any order.
RaceIds == 1 .. RaceAlerts

\* One active strategy with room for one more position.
RaceConfig == [BaseConfig EXCEPT !.maxPositions = 2]

RaceAlertPayloads ==
  { << "RELIANCE", "BUY", Some(100), Some(2) >>,
    << "TCS", "SELL", None, None >> }

RaceInit ==
  /\ closeReq = [c \in CloseIds |-> IdleClose]
  /\ server = "running"
  /\ hook = IdleHook
  /\ autoExecute = Some(FALSE)
  /\ tradesColumns = ShippedTradesColumns \cup {"realized_pnl"}
  /\ strategies = << StrategyRow(1, PipelineUser, TRUE, RaceConfig) >>
  /\ credentials = "ok"
  /\ positions \in PositionTables
  /\ alerts \in [RaceIds -> {AlertRow(d[1], d[2], d[3], d[4]) : d \in RaceAlertPayloads}]
  /\ orders = <<>>
  /\ trades = <<>>
  /\ brokerBook = <<>>
  /\ now \in ClockStarts
  /\ pa = [a \in RaceIds |-> [IdlePa EXCEPT !.pc = "load"]]
  /\ tick = [p \in TickIds |-> IdleTick]
  /\ route = IdleRoute
  /\ alertWrites = [a \in RaceIds |-> 0]
  /\ placeFailed = {}
  /\ filledSeen = [o \in OrderIds |-> 0]

RaceNext ==
  \/ ClockTick
  \/ \E a \in RaceIds : LoadStrategies(a)
  \/ \E a \in RaceIds : CheckStrategy(a)
  \/ \E a \in RaceIds : InsertOrder(a)
  \/ \E a \in RaceIds : PlaceOrderAccepted(a, RaceAlerts)
  \/ \E a \in RaceIds : PlaceOrderFails(a)
  \/ \E a \in RaceIds : UpdateOrder(a)
  \/ \E a \in RaceIds : MarkProcessed(a)
  \/ \E a \in RaceIds : CatchExecuteError(a)

SpecRace == RaceInit /\ [][RaceNext]_vars

\* Alert a has an Order row: its order is in flight or submitted.
HasOrder(a) == \E o \in 1 .. Len(orders) : orders[o].alert_id = a

\* C25: processAlert invocations of one user are not serialized: the count of
\* active positions never changes while they run, and a check whose gates pass lets
\* its alert through even when another alert's order is already in flight, so two
\* alerts can both take the last free position.
C25_ChecksIgnoreOrdersInFlight ==
  [][/\ positions' = positions
     /\ \A a, b \in RaceIds :
          (/\ a # b
           /\ HasOrder(a)
           /\ StepFrom(b, "check")
           /\ SymbolGate(b) /\ HoursGate(b) /\ CountGate(b) /\ PnlGate(b) /\ SizeGate(b))
            => pa'[b].pc = "insert"
    ]_vars

\* Both alerts passed the check at count = maxPositions - 1 and both orders were
\* accepted by the broker.
C25_Witness ==
  /\ ActiveCount = MaxPositionsOf(strategies[1].config) - 1
  /\ \E o1, o2 \in 1 .. Len(orders) :
       /\ orders[o1].alert_id = 1 /\ orders[o1].fyers_order_id # 0
       /\ orders[o2].alert_id = 2 /\ orders[o2].fyers_order_id # 0

\* ---------------------------------------------------------------- claim C26
\* The position in pa[a].rows of the strategy an Order row was made for (0: none).
PositionOf(a, strategyId) ==
  IF \E j \in 1 .. Len(pa[a].rows) : pa[a].rows[j] = strategyId
    THEN CHOOSE j \in 1 .. Len(pa[a].rows) : pa[a].rows[j] = strategyId
    ELSE 0

\* The Order rows of alert a made for strategies before the one being processed.
EarlierOrders(a) ==
  {o \in 1 .. Len(orders) :
     orders[o].alert_id = a /\ PositionOf(a, orders[o].strategy_id) < pa[a].i}

\* C26: the strategies of one invocation are processed strictly in sequence: the
\* loop moves to strategy N+1 only from the end of strategy N's branch (rejected by
\* the gates, alert status written after the order update, or the failure handling
\* done) and starts with its eligibility checks; every order of an earlier strategy
\* is then settled (broker order id stored, or its broker call failed) and has had
\* its alert status write, and no order exists for a later strategy.
C26_StrategiesInSequence ==
  /\ [][\A a \in AlertIds :
          pa'[a].i # pa[a].i =>
            \/ pa[a].pc = "load" /\ pa'[a].i = 1 /\ pa'[a].pc = "check"
            \/ /\ pa'[a].i = pa[a].i + 1
               /\ pa'[a].pc = "check"
               /\ \/ pa[a].pc = "check" /\ orders' = orders /\ brokerBook' = brokerBook
                  \/ pa[a].pc = "processed" /\ alerts'[a].status = "PROCESSED"
                  \/ pa[a].pc = "catch" /\ alerts'[a].status = "ERROR"
       ]_vars
  /\ [](\A a \in 1 .. Len(alerts) :
          /\ \A o \in 1 .. Len(orders) :
               orders[o].alert_id = a =>
                 /\ PositionOf(a, orders[o].strategy_id) \in 1 .. pa[a].i
                 /\ PositionOf(a, orders[o].strategy_id) = pa[a].i =>
                      pa[a].pc \notin {"check", "insert"}
          /\ \A o \in EarlierOrders(a) :
               orders[o].fyers_order_id # 0 \/ o \in placeFailed
          /\ alertWrites[a] >= Cardinality(EarlierOrders(a)))

\* The second strategy's checks start after the first one's order was submitted and
\* the alert marked PROCESSED.
C26_Witness ==
  \E a \in 1 .. Len(alerts) :
    /\ pa[a].pc = "check"
    /\ pa[a].i = 2
    /\ alerts[a].status = "PROCESSED"
    /\ \E o \in 1 .. Len(orders) :
         /\ orders[o].alert_id = a
         /\ orders[o].strategy_id = pa[a].rows[1]
         /\ orders[o].fyers_order_id # 0

\* ------------------------------------------------------------ termination
\* The awaits of processAlert on the database complete; the answer to placeOrder
\* comes from the broker, and the client (axios.create without a timeout option)
\* waits for it without limit, so no step is forced while a call is outstanding.
ProgramStep(a) ==
  \/ LoadStrategies(a)
  \/ CheckStrategy(a)
  \/ InsertOrder(a)
  \/ UpdateOrder(a)
  \/ MarkProcessed(a)
  \/ CatchExecuteError(a)

SpecLive == RaceInit /\ [][RaceNext]_vars /\ \A a \in RaceIds : WF_vars(ProgramStep(a))

\* C28: every processAlert invocation eventually completes.
C28_EveryInvocationCompletes ==
  \A a \in RaceIds : pa[a].pc = "load" ~> pa[a].pc = "done"

\* ------------------------------------------ the webhook's fan-out to the users
\* router.post('/chartlink'): one delivery is stored and processed for each active
\* user in turn; processAlert is awaited and seen here by its outcome only.
ActiveUserLists == {[j \in 1 .. n |-> j] : n \in 0 .. NumUsers}

FanInit ==
  /\ closeReq = [c \in CloseIds |-> IdleClose]
  /\ server = "running"
  /\ hook = IdleHook
  /\ autoExecute = Some(FALSE)
  /\ tradesColumns = ShippedTradesColumns
  /\ strategies = <<>>
  /\ credentials = "ok"
  /\ positions \in PositionTables
  /\ alerts = <<>>
  /\ orders = <<>>
  /\ trades = <<>>
  /\ brokerBook = <<>>
  /\ now \in ClockStarts
  /\ pa = [a \in AlertIds |-> IdlePa]
  /\ tick = [p \in TickIds |-> IdleTick]
  /\ route = IdleRoute
  /\ alertWrites = [a \in AlertIds |-> 0]
  /\ placeFailed = {}
  /\ filledSeen = [o \in OrderIds |-> 0]

\* The end of one iteration of `for (const user of users.rows)`: the entry pushed to
\* processedAlerts, then the next user or the response.
NextUser(h, entry) ==
  [h EXCEPT !.pc = IF h.u < Len(h.users) THEN "insert" ELSE "respond",
            !.u = IF h.u < Len(h.users) THEN h.u + 1 ELSE h.u,
            !.alertId = 0,
            !.attempted = IF h.u < Len(h.users) THEN Append(@, h.users[h.u + 1]) ELSE @,
            !.processedAlerts = Append(@, entry)]

\* Variant: the error of one user ends the loop, the response is sent at once.
UserFailed_EndsLoop(h) ==
  [h EXCEPT !.pc = "respond", !.alertId = 0,
            !.processedAlerts = Append(@, [userId |-> h.users[h.u], status |-> "error"])]

\* Lines 124-136: the catch of the iteration logs and pushes an error entry.
UserFailed(h) == NextUser(h, [userId |-> h.users[h.u], status |-> "error"])

\* Lines 36-88: the payload is validated, the active users are selected; without
\* users the answer is 'No active users'.
FanStart(symbol, action, price, quantity, users) ==
  /\ hook.pc = "idle"
  /\ Len(alerts) < MaxAlerts
  /\ hook' = IF users = <<>>
               THEN [IdleHook EXCEPT !.pc = "respond",
                                     !.alertData = Some(<< symbol, action, price, quantity >>)]
               ELSE [IdleHook EXCEPT !.pc = "insert",
                                     !.alertData = Some(<< symbol, action, price, quantity >>),
                                     !.users = users, !.u = 1,
                                     !.attempted = << users[1] >>]
  /\ UNCHANGED << closeReq, server, autoExecute, tradesColumns, strategies, credentials, alerts, orders, trades, positions, brokerBook,
                  now, pa, tick, route, alertWrites, placeFailed, filledSeen >>

\* Lines 91-106: INSERT INTO alerts ... RETURNING id.
FanInsertOk ==
  /\ hook.pc = "insert"
  /\ alerts' = Append(alerts, AlertRow(hook.alertData[1][1], hook.alertData[1][2],
                                       hook.alertData[1][3], hook.alertData[1][4]))
  /\ hook' = [hook EXCEPT !.pc = "process", !.alertId = Len(alerts) + 1,
                          !.invoked = Append(@, hook.users[hook.u])]
  /\ UNCHANGED << closeReq, server, autoExecute, tradesColumns, strategies, credentials, orders, trades, positions, brokerBook,
                  now, pa, tick, route, alertWrites, placeFailed, filledSeen >>

\* Lines 91-104: the INSERT rejects.
FanInsertFails ==
  /\ hook.pc = "insert"
  /\ hook' = UserFailed(hook)
  /\ UNCHANGED << closeReq, server, autoExecute, tradesColumns, strategies, credentials, alerts, orders, trades, positions, brokerBook,
                  now, pa, tick, route, alertWrites, placeFailed, filledSeen >>

\* Lines 109-115: processAlert resolves.
FanProcessReturns ==
  /\ hook.pc = "process"
  /\ hook' = NextUser(hook, [userId |-> hook.users[hook.u], status |-> "processed"])
  /\ UNCHANGED << closeReq, server, autoExecute, tradesColumns, strategies, credentials, alerts, orders, trades, positions, brokerBook,
                  now, pa, tick, route, alertWrites, placeFailed, filledSeen >>

\* Line 109: processAlert rejects.
FanProcessThrows ==
  /\ hook.pc = "process"
  /\ hook' = UserFailed(hook)
  /\ UNCHANGED << closeReq, server, autoExecute, tradesColumns, strategies, credentials, alerts, orders, trades, positions, brokerBook,
                  now, pa, tick, route, alertWrites, placeFailed, filledSeen >>

\* Lines 139-143: res.json({ message, processedCount, alerts }).
FanRespond ==
  /\ hook.pc = "respond"
  /\ hook' = IdleHook
  /\ UNCHANGED << closeReq, server, autoExecute, tradesColumns, strategies, credentials, alerts, orders, trades, positions, brokerBook,
                  now, pa, tick, route, alertWrites, placeFailed, filledSeen >>

FanNext ==
  \/ ClockTick
  \/ \E d \in AlertPayloads, users \in ActiveUserLists : FanStart(d[1], d[2], d[3], d[4], users)
  \/ FanInsertOk
  \/ FanInsertFails
  \/ FanProcessReturns
  \/ FanProcessThrows
  \/ FanRespond

SpecFanout == FanInit /\ [][FanNext]_vars

\* The users whose iteration ended with an error entry.
FailedUsers(h) ==
  {h.processedAlerts[j].userId :
     j \in {i \in 1 .. Len(h.processedAlerts) : h.processedAlerts[i].status = "error"}}

\* C29: in one delivery every step of a user's iteration, failing or not, keeps the
\* list of users and leads to the same user's processAlert or to the INSERT for the
\* next user; the response is sent only after the last user. processAlert is invoked
\* for every alert that is stored; at the response the INSERT was issued for every
\* user and each user has an entry.
C29_FanOutSurvivesUserFailure ==
  /\ [][(hook.pc \in {"insert", "process"} /\ hook' # hook) =>
          /\ hook'.users = hook.users
          /\ \/ hook.pc = "insert" /\ hook'.pc = "process" /\ hook'.u = hook.u
             \/ hook.u < Len(hook.users) /\ hook'.pc = "insert" /\ hook'.u = hook.u + 1
             \/ hook.u = Len(hook.users) /\ hook'.pc = "respond"
       ]_vars
  /\ [][Len(alerts') > Len(alerts) =>
          /\ hook'.pc = "process"
          /\ hook'.alertId = Len(alerts')
          /\ hook'.invoked = Append(hook.invoked, hook.users[hook.u])
       ]_vars
  /\ [](hook.pc = "respond" =>
          /\ hook.attempted = hook.users
          /\ Len(hook.processedAlerts) = Len(hook.users)
          /\ \A j \in 1 .. Len(hook.users) : hook.processedAlerts[j].userId = hook.users[j])

\* The first user's INSERT failed, the second user's processAlert rejected, and the
\* third user's alert was stored and processed.
C29_Witness ==
  /\ hook.pc = "respond"
  /\ Len(hook.users) = 3
  /\ FailedUsers(hook) = {1, 2}
  /\ hook.invoked = << 2, 3 >>
  /\ Len(alerts) = 2

\* ------------------------------------------- reconciliation under fair ticks
\* The timer keeps firing and every await of a tick completes; the broker changes
\* what it reports whenever it does.
TickStep(p) ==
  \/ MonitorFetch(p)
  \/ MonitorUpdate(p)
  \/ createTradeRecord(p)

ReconLiveNext ==
  \/ \E f \in ReconIds, price \in FillPrices, charges \in BrokerCharges :
          BrokerFills(f, price, charges)
  \/ \E f \in ReconIds, price \in FillPrices : BrokerFillsPartly(f, price)
  \/ \E f \in ReconIds : BrokerRejects(f)
  \/ \E p \in TickIds : TickSelect(p)
  \/ \E p \in TickIds : MonitorFetch(p)
  \/ \E p \in TickIds : MonitorUpdate(p)
  \/ \E p \in TickIds : createTradeRecord(p)

SpecReconLive ==
  /\ ReconInit
  /\ [][ReconLiveNext]_vars
  /\ WF_vars(\E p \in TickIds : TickSelect(p))
  /\ \A p \in TickIds : WF_vars(TickStep(p))

\* C30: with credentials present, an order submitted with a broker order id
\* eventually becomes FILLED locally once the broker reports it FILLED.
C30_FilledAtBrokerBecomesFilled ==
  \A o \in ReconIds :
    (credentials = "ok" /\ brokerBook[orders[o].fyers_order_id].status = "FILLED")
      ~> orders[o].status = "FILLED"

\* ------------------------------------------ what the broker can report back
\* Orders are sent with validity 'DAY' (validateOrderData): one the exchange has not
\* filled by the end of the session is reported as expired.
BrokerExpires(f) ==
  /\ f \in 1 .. Len(brokerBook)
  /\ OpenAtBroker(f)
  /\ brokerBook' = [brokerBook EXCEPT ![f].status = "EXPIRED"]
  /\ UNCHANGED << closeReq, server, hook, autoExecute, tradesColumns, strategies, credentials, alerts, orders, trades, positions,
                  now, pa, tick, route, alertWrites, placeFailed, filledSeen >>

StatusNext ==
  \/ ReconLiveNext
  \/ \E f \in ReconIds : BrokerExpires(f)

SpecStatus == ReconInit /\ [][StatusNext]_vars

\* The statuses of an Order row (orders.status).
OrderStatuses ==
  {"PENDING", "SUBMITTED", "FILLED", "PARTIALLY_FILLED", "CANCELLED", "REJECTED"}

\* C31: the status stored on an Order row is always one of PENDING, SUBMITTED,
\* FILLED, PARTIALLY_FILLED, CANCELLED, REJECTED.
C31_StatusInLocalSet ==
  \A o \in 1 .. Len(orders) : orders[o].status \in OrderStatuses

\* ---------------------------------------------------------------- claim C32
\* The positions of processAlert inside executeOrder and its failure handling.
ExecutePcs == {"insert", "place", "update", "processed", "catch"}

\* All gates of the strategy being checked let the alert through.
GatesPass(a) ==
  SymbolGate(a) /\ HoursGate(a) /\ CountGate(a) /\ PnlGate(a) /\ SizeGate(a)

\* Alert a gets an Order row in this step.
GetsOrder(a) ==
  \E o \in 1 .. Len(orders') : o > Len(orders) /\ orders'[o].alert_id = a

\* C32: a strategy that rejects the alert on eligibility changes nothing: the loop
\* moves on with no Order row, no broker call and no alert write. executeOrder is
\* entered only through a check whose gates all pass, and outside it (and outside
\* the no-strategy case) an invocation neither writes its alert nor creates an
\* order; so with every strategy rejecting, the alert keeps its ingestion status.
C32_RejectionChangesNothing ==
  [][\A a \in 1 .. Len(alerts) :
       /\ (StepFrom(a, "check") /\ ~GatesPass(a)) =>
            /\ pa'[a].pc \in {"check", "done"}
            /\ orders' = orders
            /\ brokerBook' = brokerBook
            /\ alerts' = alerts
            /\ alertWrites' = alertWrites
       /\ (pa'[a].pc \in ExecutePcs /\ pa[a].pc \notin ExecutePcs) =>
            pa[a].pc = "check" /\ GatesPass(a)
       /\ pa[a].pc \notin ExecutePcs \cup {"ignore"} =>
            /\ alerts'[a] = alerts[a]
            /\ alertWrites'[a] = alertWrites[a]
            /\ ~GetsOrder(a)
    ]_vars

\* Both active strategies rejected the alert (no query failed): it is still PENDING,
\* never written, and has no order.
C32_Witness ==
  \E a \in 1 .. Len(alerts) :
    /\ pa[a].pc = "done"
    /\ Len(pa[a].rows) = 2
    /\ "realized_pnl" \in tradesColumns
    /\ alerts[a].status = "PENDING"
    /\ alertWrites[a] = 0
    /\ \A o \in 1 .. Len(orders) : orders[o].alert_id # a

\* -------------------------------------------- the manual close of a position
\* router.post('/:symbol/close') for the position of CloseSymbol, next to the alert
\* pipeline of the same user.
CloseSymbol == "TCS"
CloseQuantities == {1, 2}
ClosePrices == {40, 100}

\* The position before the run: quantity 2 bought at 100, nothing realized yet.
OpenPosition == [quantity |-> 2, is_active |-> TRUE, avg_price |-> 100, realized_pnl |-> 0]

\* The strategy of the user: a daily loss limit of 50.
LossLimitConfig == [BaseConfig EXCEPT !.dailyLossLimit = 50]

CloseInit ==
  /\ closeReq = [c \in CloseIds |-> IdleClose]
  /\ server = "running"
  /\ hook = IdleHook
  /\ autoExecute = Some(FALSE)
  /\ tradesColumns \in TradesSchemas
  /\ strategies = << StrategyRow(1, PipelineUser, TRUE, LossLimitConfig) >>
  /\ credentials = "ok"
  /\ positions = [s \in {CloseSymbol} |-> OpenPosition]
  /\ alerts = <<>>
  /\ orders = <<>>
  /\ trades = <<>>
  /\ brokerBook = <<>>
  /\ now \in ClockStarts
  /\ pa = [a \in AlertIds |-> IdlePa]
  /\ tick = [p \in TickIds |-> IdleTick]
  /\ route = IdleRoute
  /\ alertWrites = [a \in AlertIds |-> 0]
  /\ placeFailed = {}
  /\ filledSeen = [o \in OrderIds |-> 0]

\* const pnl = (price - position.avg_price) * quantity
ClosePnl(r) == (r.price - r.position[1].avg_price) * r.quantity

\* const side = position.quantity > 0 ? 'SELL' : 'BUY'
CloseSide(r) == IF r.position[1].quantity > 0 THEN "SELL" ELSE "BUY"

\* INSERT INTO trades (user_id, symbol, side, quantity, price, pnl, executed_at)
CloseTradeRow(r) ==
  [ order_id |-> 0, symbol |-> CloseSymbol, side |-> CloseSide(r),
    quantity |-> r.quantity, price |-> r.price, charges |-> 0,
    pnl |-> Some(ClosePnl(r)), realized_pnl |-> None ]

\* const newQuantity = position.quantity - (side === 'SELL' ? quantity : -quantity)
NewQuantity(r) ==
  r.position[1].quantity - (IF CloseSide(r) = "SELL" THEN r.quantity ELSE 0 - r.quantity)

\* UPDATE positions SET quantity, realized_pnl (and is_active = false at 0): the
\* values come from the row as it was read.
ClosedPosition(row, r) ==
  IF NewQuantity(r) = 0
    THEN [row EXCEPT !.quantity = 0, !.realized_pnl = r.position[1].realized_pnl + ClosePnl(r),
                     !.is_active = FALSE]
    ELSE [row EXCEPT !.quantity = NewQuantity(r),
                     !.realized_pnl = r.position[1].realized_pnl + ClosePnl(r)]

\* Lines 66-92: the request is validated against the active position row.
CloseRead(c, quantity, price) ==
  /\ closeReq[c].pc = "idle"
  /\ \A d \in CloseIds : d < c => closeReq[d].pc # "idle"
  /\ Len(trades) < MaxCloseTrades
  /\ positions[CloseSymbol].is_active
  /\ quantity <= positions[CloseSymbol].quantity
  /\ closeReq' = [closeReq EXCEPT ![c] =
                    [pc |-> "trade", quantity |-> quantity, price |-> price,
                     position |-> Some(positions[CloseSymbol])]]
  /\ UNCHANGED << server, hook, autoExecute, tradesColumns, strategies, credentials, alerts, orders, trades, positions,
                  brokerBook, now, pa, tick, route, alertWrites, placeFailed, filledSeen >>

\* Lines 94-112: the trade of the close is recorded.
CloseInsertTrade(c) ==
  /\ closeReq[c].pc = "trade"
  /\ trades' = Append(trades, CloseTradeRow(closeReq[c]))
  /\ closeReq' = [closeReq EXCEPT ![c].pc = "update"]
  /\ UNCHANGED << server, hook, autoExecute, tradesColumns, strategies, credentials, alerts, orders, positions,
                  brokerBook, now, pa, tick, route, alertWrites, placeFailed, filledSeen >>

\* Lines 114-150: the position row is rewritten, and the response sent.
CloseUpdate(c) ==
  /\ closeReq[c].pc = "update"
  /\ positions' = [positions EXCEPT
                     ![CloseSymbol] = ClosedPosition(positions[CloseSymbol], closeReq[c])]
  /\ closeReq' = [closeReq EXCEPT ![c] = IdleClose]
  /\ UNCHANGED << server, hook, autoExecute, tradesColumns, strategies, credentials, alerts, orders, trades,
                  brokerBook, now, pa, tick, route, alertWrites, placeFailed, filledSeen >>

CloseNext ==
  \/ \E c \in CloseIds, quantity \in CloseQuantities, price \in ClosePrices :
          CloseRead(c, quantity, price)
  \/ \E c \in CloseIds : CloseInsertTrade(c)
  \/ \E c \in CloseIds : CloseUpdate(c)
  \/ \E d \in AlertPayloads : Webhook(d[1], d[2], d[3], d[4])
  \/ \E a \in AlertIds : LoadStrategies(a)
  \/ \E a \in AlertIds : CheckStrategy(a)
  \/ \E a \in AlertIds : InsertOrder(a)
  \/ \E a \in AlertIds : PlaceOrderOk(a)
  \/ \E a \in AlertIds : PlaceOrderFails(a)
  \/ \E a \in AlertIds : UpdateOrder(a)
  \/ \E a \in AlertIds : MarkProcessed(a)
  \/ \E a \in AlertIds : CatchExecuteError(a)

SpecClose == CloseInit /\ [][CloseNext]_vars

\* The P&L a trades row realized: what the close route stores in pnl (a fill
\* recorded by createTradeRecord realizes nothing by itself).
TradePnl(t) == IF "pnl" \in DOMAIN t /\ t.pnl # None THEN t.pnl[1] ELSE 0

RECURSIVE RealizedToday(_)
RealizedToday(trs) == IF trs = <<>> THEN 0 ELSE TradePnl(Head(trs)) + RealizedToday(Tail(trs))

\* C33: once today's trades have realized a loss of at least dailyLossLimit, no
\* check lets an alert through.
C33_RealizedLossBlocksAlerts ==
  [][\A a \in 1 .. Len(alerts) :
       (/\ StepFrom(a, "check")
        /\ RealizedToday(trades) <= 0 - DailyLossLimitOf(CheckedConfig(a)))
         => pa'[a].pc # "insert"
    ]_vars

\* The quantity the close route has recorded in trades rows.
RECURSIVE ClosedQuantity(_)
ClosedQuantity(trs) ==
  IF trs = <<>> THEN 0
  ELSE (IF Head(trs).order_id = 0 THEN Head(trs).quantity ELSE 0) + ClosedQuantity(Tail(trs))

\* C38: the close route never records more than the position held, and whenever
\* no close request is between its trade and its position update the stored
\* quantity is what is left, inactive exactly at 0.
C38_ClosesWithinPosition ==
  /\ ClosedQuantity(trades) <= OpenPosition.quantity
  /\ (\A c \in CloseIds : closeReq[c].pc = "idle") =>
       /\ positions[CloseSymbol].quantity = OpenPosition.quantity - ClosedQuantity(trades)
       /\ positions[CloseSymbol].is_active <=> positions[CloseSymbol].quantity # 0

\* ------------------------------------------------------- side sent to the broker
\* The alert whose invocation places an order in this step.
PlacesOrder(a) == StepFrom(a, "place") /\ Len(brokerBook') = Len(brokerBook) + 1

\* C34: the broker books a sell (side -1) only for an alert whose action is SELL,
\* and a buy (side 1) only for an alert whose action is BUY.
C34_BrokerSideIsAlertAction ==
  [][\A a \in 1 .. Len(alerts) :
       PlacesOrder(a) =>
         LET booked == brokerBook'[Len(brokerBook')]
         IN /\ booked.side = 0 - 1 => alerts[a].action = "SELL"
            /\ booked.side = 1 => alerts[a].action = "BUY"
    ]_vars

\* ------------------------------------------- accepted orders and their rows
\* The invocation that holds the broker's answer for order f and has yet to write it.
AwaitsWrite(f) ==
  \/ \E a \in AlertIds : pa[a].pc \in {"update", "autoinsert"} /\ pa[a].fyersId = f
  \/ route.pc = "manualInsert" /\ route.fyersId = f

\* The Order rows that carry broker order id f: the rows the cron job's SELECT can
\* reach for it (fyers_order_id IS NOT NULL).
RowsOf(f) == {o \in 1 .. Len(orders) : orders[o].fyers_order_id = f}

\* C35: once the write that follows the broker call is over, whether it succeeded
\* or failed, every order the broker accepted has an Order row that carries its
\* broker order id.
C35_AcceptedOrderHasRow ==
  \A f \in 1 .. Len(brokerBook) : AwaitsWrite(f) \/ RowsOf(f) # {}

\* ------------------------------------------- fills and their trade rows
\* The reconciliation under fair scheduling, with a trades INSERT that can reject.
TradeStep(p) == TickStep(p) \/ createTradeRecordFails(p)

TradeLiveNext ==
  \/ ReconLiveNext
  \/ \E p \in TickIds : createTradeRecordFails(p)

SpecTradeLive ==
  /\ ReconInit
  /\ [][TradeLiveNext]_vars
  /\ WF_vars(\E p \in TickIds : TickSelect(p))
  /\ \A p \in TickIds : WF_vars(TradeStep(p))

\* C36: an order the cron job has set to FILLED eventually has a trades row.
C36_FilledOrderGetsTrade ==
  \A o \in ReconIds : orders[o].status = "FILLED" ~> TradesOf(o) # {}

\* ------------------------------------- the alert status after several strategies
\* The orders of alert a whose broker call failed: executeOrder marked the alert
\* ERROR for each of them.
FailedOrdersOf(a) == {o \in placeFailed : orders[o].alert_id = a}

\* C37: when processAlert is over, the alert is PROCESSED only if no order
\* execution failed for it.
C37_ProcessedMeansNoFailure ==
  \A a \in 1 .. Len(alerts) :
    (pa[a].pc = "done" /\ alerts[a].status = "PROCESSED") => FailedOrdersOf(a) = {}

====
